---- MODULE Spec2Model ----
(***************************************************************************)
(* Solar Dominion: the simulation stepper (GameState.update), the maneuver *)
(* command (GameInputHandler.execute_transfer) and the closed-form solvers *)
(* they call (physics/orbital.py, physics/transfer.py, physics/delta_v.py).*)
(*                                                                         *)
(* The program computes in IEEE doubles; the model computes in fixed point *)
(* on TLC's 32-bit integers.  Units of the model:                          *)
(*   length      deci game units   (1 AU = AU game units = 1000 deci)      *)
(*   orbit radii milli-AU          (the same grid, since AU = 100)         *)
(*   velocity    centi game units per day                                  *)
(*   time        centi-days;  dt in centi-seconds                          *)
(*   angle       1/10000 radian                                            *)
(*   mass        1/10000 of the program's mass unit                        *)
(*   fuel        centi-percent (100% = 10000)                              *)
(* Every product is ordered so that it stays below 2^31.                   *)
(***************************************************************************)
EXTENDS Integers, Sequences, FiniteSets, TLC

\* ------------------------------------------------------------------------
\* Program constants (src/constants.py)
AU == 100
G == 100
DAY_PER_SECOND == 1
SUN_MASS == 1000

\* Fixed-point scales (not program constants).
LenScale == 5 + 5            \* deci game units per game unit
VelScale == 10 * 10          \* centi units/day per unit/day
TimeScale == 10 * 10         \* centi-days per day
AngScale == 100 * 100        \* angle units per radian
MassScale == 100 * 100       \* mass units per program mass unit
PctScale == 10 * 10          \* fuel units per percent
Fx == 100 * 100              \* scale of dimensionless ratios
PI == 31416                  \* math.pi in angle units
HALF_PI == 15708
TWO_PI == 62832
FULL_FUEL == 100 * PctScale  \* 100.0 percent

\* Python's None, for the optional fields (all of which hold records).
None == [none |-> TRUE]
\* A number or a tuple where None may stand as well.
Value(v) == [value |-> v]

\* ------------------------------------------------------------------------
\* Arithmetic helpers: Python's float operations on the fixed-point grid.
Abs(x) == IF x < 0 THEN -x ELSE x
Max(a, b) == IF a >= b THEN a ELSE b
Min(a, b) == IF a <= b THEN a ELSE b

\* a / b rounded toward zero (b > 0), symmetric in the sign of a.
Div(a, b) == IF a >= 0 THEN a \div b ELSE -((-a) \div b)

\* <<quotient, remainder>> of a * b by c, formed one bit of b at a time so
\* that no intermediate exceeds 2 * c + a  (a, b >= 0, c > 0).
RECURSIVE MulDivQR(_, _, _)
MulDivQR(a, b, c) ==
  IF b = 0 THEN <<0, 0>>
  ELSE LET h == MulDivQR(a, b \div 2, c)
           n == 2 * h[2] + (IF b % 2 = 1 THEN a % c ELSE 0)
           e == IF b % 2 = 1 THEN a \div c ELSE 0
       IN <<2 * h[1] + e + (n \div c), n % c>>

\* a * b / c rounded toward zero (c > 0), without forming a * b.
MulDiv(a, b, c) ==
  LET q == IF b = 0 \/ Abs(a) <= 2147483647 \div Abs(b)
           THEN (Abs(a) * Abs(b)) \div c
           ELSE MulDivQR(Abs(a), Abs(b), c)[1]
  IN IF (a < 0) = (b < 0) THEN q ELSE -q

RECURSIVE SqrtIter(_, _, _)
SqrtIter(n, lo, hi) ==
  IF lo >= hi THEN lo
  ELSE LET mid == (lo + hi + 1) \div 2
       IN IF mid * mid <= n THEN SqrtIter(n, mid, hi) ELSE SqrtIter(n, lo, mid - 1)

\* math.sqrt on the grid: floor of the square root (n >= 0).
Sqrt(n) == SqrtIter(n, 0, Min(n, 46340))

RECURSIVE ExpTerms(_, _, _, _)
ExpTerms(x, k, term, acc) ==
  IF term = 0 \/ k > 24 THEN acc
  ELSE LET t == (term * x) \div (k * Fx)
       IN ExpTerms(x, k + 1, t, acc + t)

\* math.exp on the grid, x >= 0 scaled by Fx, result scaled by Fx.
\* Arguments above ExpCap saturate: every mass ratio that large already
\* costs far more than 100% fuel.
ExpCap == 3 * Fx
Exp(x) == ExpTerms(Min(x, ExpCap), 1, Fx, Fx)

RECURSIVE SinTerms(_, _, _, _)
SinTerms(x, k, term, acc) ==
  IF term = 0 \/ k > 15 THEN acc
  ELSE LET t1 == Div(term * x, Fx)
           t == -Div(Div(t1 * x, Fx), k * (k + 1))
       IN SinTerms(x, k + 2, t, acc + t)

\* Sine of an angle in [-HALF_PI, HALF_PI].
SinSmall(x) == SinTerms(x, 2, x, x)

\* Angle reduced to [0, TWO_PI).
Wrap(a) == a % TWO_PI

\* math.sin / math.cos, result scaled by Fx.
Sin(a) ==
  LET w == Wrap(a)
  IN IF w <= HALF_PI THEN SinSmall(w)
     ELSE IF w <= PI + HALF_PI THEN SinSmall(PI - w)
     ELSE SinSmall(w - TWO_PI)

Cos(a) == Sin(a + HALF_PI)

\* The angle in [0, HALF_PI] whose tangent is y / x (x, y >= 0, not both 0),
\* found by bisection on the sign of y*cos - x*sin.
RECURSIVE AtanIter(_, _, _, _)
AtanIter(y, x, lo, hi) ==
  IF hi - lo <= 1 THEN lo
  ELSE LET mid == (lo + hi) \div 2
       IN IF MulDiv(y, Cos(mid), Fx) >= MulDiv(x, Sin(mid), Fx)
          THEN AtanIter(y, x, mid, hi)
          ELSE AtanIter(y, x, lo, mid)

\* math.atan2(y, x), in (-PI, PI]; atan2(0, 0) = 0.
Atan2(y, x) ==
  IF x = 0 /\ y = 0 THEN 0
  ELSE IF y = 0 THEN (IF x > 0 THEN 0 ELSE PI)
  ELSE IF x = 0 THEN (IF y > 0 THEN HALF_PI ELSE -HALF_PI)
  ELSE LET m == Max(Abs(x), Abs(y))
           k == IF m < 10000 THEN 20000 \div m ELSE 1
           t == AtanIter(Abs(y) * k, Abs(x) * k, 0, HALF_PI)
       IN IF x > 0 THEN (IF y > 0 THEN t ELSE -t)
          ELSE (IF y > 0 THEN PI - t ELSE t - PI)

\* math.sqrt rounded to the nearest grid step.
SqrtNearest(n) ==
  LET s == Sqrt(n)
  IN IF n - s * s > s THEN s + 1 ELSE s

\* math.sqrt(x**2 + y**2); components too large to square are halved first.
RECURSIVE Norm(_)
Norm(p) ==
  IF Abs(p[1]) > 30000 \/ Abs(p[2]) > 30000
  THEN 2 * Norm(<<Div(p[1], 2), Div(p[2], 2)>>)
  ELSE SqrtNearest(p[1] * p[1] + p[2] * p[2])

\* The same length in thousandths of the grid step: the floor root plus one
\* Newton correction; to the grid step only beyond 30000.
NormFine(p) ==
  LET n == p[1] * p[1] + p[2] * p[2]
      r0 == Sqrt(n)
  IN IF Abs(p[1]) > 30000 \/ Abs(p[2]) > 30000 THEN 1000 * Norm(p)
     ELSE IF r0 = 0 THEN 0
     ELSE r0 * 1000 + MulDiv(n - r0 * r0, 1000, 2 * r0)

\* ------------------------------------------------------------------------
\* physics/orbital.py

\* semi_major_axis * AU: an orbit radius in AU (milli-AU) as a length (deci).
FromAU(sma) == (sma * AU) \div 100
\* length / AU
ToAU(len) == (len * 100) \div AU

\* calculate_orbital_position(semi_major_axis, angle)
calculate_orbital_position(semi_major_axis, angle) ==
  LET radius == FromAU(semi_major_axis)
  IN <<MulDiv(radius, Cos(angle), Fx), MulDiv(radius, Sin(angle), Fx)>>

\* G * mass_central / radius, in (centi units/day)^2.  mass_central is in
\* whole program mass units here (the Sun's 1000, a planet's 1).
\* Within half a game unit of the centre the value saturates at 2 * 10^9.
SpeedSq(mass_central, radius) ==
  IF (G * mass_central * Fx) \div radius >= 200000000
  THEN 2000000000
  ELSE MulDiv(G * mass_central * Fx, LenScale, radius)

\* calculate_orbital_velocity raises ZeroDivisionError for radius 0.
orbital_velocity_defined(semi_major_axis) == FromAU(semi_major_axis) # 0

\* calculate_orbital_velocity(mass_central, semi_major_axis)
calculate_orbital_velocity(mass_central, semi_major_axis) ==
  LET radius == FromAU(semi_major_axis)
  IN Sqrt(SpeedSq(mass_central, radius))

\* calculate_orbital_elements_from_state_vectors reads position[2] and
\* velocity[2] (lines 127-128), the third component: a 2-tuple raises
\* IndexError.  (Python counts from 0.)
state_vectors_defined(position, velocity) == Len(position) >= 3 /\ Len(velocity) >= 3

\* math.sqrt(eccentricity_vector_x**2 + eccentricity_vector_y**2), scaled by
\* Fx; each component is (v**2/GM - 1/r) * p - (p . v)/GM * v.
VectorEccentricity(position, velocity, central_mass) ==
  LET r == Norm(<<position[1], position[2]>>)
      v2 == velocity[1] * velocity[1] + velocity[2] * velocity[2]
      gm == LenScale * G * central_mass
      dot == position[1] * velocity[1] + position[2] * velocity[2]
      component(p, v) == MulDiv(p, v2, gm) - MulDiv(p, Fx, r) - MulDiv(dot, v, gm)
  IN Norm(<<component(position[1], velocity[1]), component(position[2], velocity[2])>>)

\* calculate_orbital_elements_from_state_vectors(position, velocity,
\* central_mass): what the call gives, an exception included.
calculate_orbital_elements_from_state_vectors(position, velocity, central_mass) ==
  IF ~state_vectors_defined(position, velocity) THEN [raised |-> "IndexError"]
  ELSE IF Norm(<<position[1], position[2]>>) = 0 THEN [raised |-> "ZeroDivisionError"]
  ELSE LET r == Norm(<<position[1], position[2]>>)
           v2 == velocity[1] * velocity[1] + velocity[2] * velocity[2]
       IN [eccentricity |-> VectorEccentricity(position, velocity, central_mass),
           energy |-> (v2 \div 2) - SpeedSq(central_mass, r),
           angular_momentum |-> Abs(position[1] * velocity[2] - position[2] * velocity[1])]

\* ------------------------------------------------------------------------
\* physics/transfer.py

\* sqrt(G*M*(2/r - 1/a)) with a = two_a / 2, computed as
\* sqrt((G*M/r) * 2*(two_a - r)/two_a), the same quantity.
VisViva(central_mass, r, two_a) ==
  Sqrt(MulDiv(SpeedSq(central_mass, r), (2 * (two_a - r) * Fx) \div two_a, Fx))

\* pi * sqrt(a**3 / (G*M)) with a = two_a / 2, in centi-days.
HalfPeriod(central_mass, two_a) ==
  LET w == Sqrt(MulDiv(two_a, 50000000, G * central_mass))
  IN MulDiv((two_a * w) \div 2000, PI, 31623)

\* Both radii must be non-zero, or a division in the function raises.
hohmann_defined(r1, r2) == FromAU(r1) # 0 /\ FromAU(r2) # 0

\* A variant that takes the second burn with its sign, not its size.
calculate_hohmann_transfer_Signed(r1, r2, central_mass) ==
  LET r1_units == FromAU(r1)
      r2_units == FromAU(r2)
      two_a == r1_units + r2_units
      delta_v1 == Abs(VisViva(central_mass, r1_units, two_a)
                      - calculate_orbital_velocity(central_mass, r1))
      delta_v2 == calculate_orbital_velocity(central_mass, r2)
                  - VisViva(central_mass, r2_units, two_a)
  IN [delta_v1 |-> delta_v1,
      delta_v2 |-> delta_v2,
      total_delta_v |-> delta_v1 + delta_v2,
      transfer_time |-> HalfPeriod(central_mass, two_a),
      semi_major_axis |-> ToAU(two_a) \div 2]

\* calculate_hohmann_transfer(r1, r2, central_mass)
calculate_hohmann_transfer(r1, r2, central_mass) ==
  LET r1_units == FromAU(r1)
      r2_units == FromAU(r2)
      two_a == r1_units + r2_units
      v1_circular == calculate_orbital_velocity(central_mass, r1)
      v2_circular == calculate_orbital_velocity(central_mass, r2)
      v1_transfer == VisViva(central_mass, r1_units, two_a)
      v2_transfer == VisViva(central_mass, r2_units, two_a)
      delta_v1 == Abs(v1_transfer - v1_circular)
      delta_v2 == Abs(v2_circular - v2_transfer)
  IN [delta_v1 |-> delta_v1,
      delta_v2 |-> delta_v2,
      total_delta_v |-> delta_v1 + delta_v2,
      transfer_time |-> HalfPeriod(central_mass, two_a),
      semi_major_axis |-> ToAU(two_a) \div 2]

\* calculate_bi_elliptic_transfer(r1, r2, r_intermediate, central_mass)
calculate_bi_elliptic_transfer(r1, r2, r_intermediate, central_mass) ==
  LET r1_units == FromAU(r1)
      r2_units == FromAU(r2)
      r_intermediate_units == FromAU(r_intermediate)
      v1_circular == calculate_orbital_velocity(central_mass, r1)
      v2_circular == calculate_orbital_velocity(central_mass, r2)
      two_a1 == r1_units + r_intermediate_units
      two_a2 == r2_units + r_intermediate_units
      v1_transfer == VisViva(central_mass, r1_units, two_a1)
      v_intermediate_1 == VisViva(central_mass, r_intermediate_units, two_a1)
      v_intermediate_2 == VisViva(central_mass, r_intermediate_units, two_a2)
      v2_transfer == VisViva(central_mass, r2_units, two_a2)
      delta_v1 == Abs(v1_transfer - v1_circular)
      delta_v2 == Abs(v_intermediate_2 - v_intermediate_1)
      delta_v3 == Abs(v2_circular - v2_transfer)
      transfer_time1 == HalfPeriod(central_mass, two_a1)
      transfer_time2 == HalfPeriod(central_mass, two_a2)
  IN [delta_v1 |-> delta_v1,
      delta_v2 |-> delta_v2,
      delta_v3 |-> delta_v3,
      total_delta_v |-> delta_v1 + delta_v2 + delta_v3,
      total_transfer_time |-> transfer_time1 + transfer_time2]

\* generate_hohmann_trajectory_points: the num_points samples lie on the
\* ellipse fixed by r1 = |start_position| and r2 = |end_position|, over true
\* anomaly 0..pi (outbound) or pi..2pi (inbound).  The display path is kept
\* as that ellipse and the sample count, not as the individual points.
generate_hohmann_trajectory_points(start_position, end_position, num_points) ==
  LET r1 == Norm(start_position)
      r2 == Norm(end_position)
  IN [periapsis |-> Min(r1, r2),
      apoapsis |-> Max(r1, r2),
      outbound |-> r1 < r2,
      num_points |-> num_points]

\* (current_time % period) / period * 2 * math.pi
OrbitPhase(current_time, period) == MulDiv(current_time % period, TWO_PI, period)

\* math.pi * math.sqrt(a_transfer**3) with a_transfer = (r1 + r2) / 2 in AU,
\* which the function takes for a time in days; centi-days here.
WindowTransferTime(r1, r2) ==
  LET a_transfer == (r1 + r2) \div 2
  IN MulDiv(a_transfer * Sqrt(a_transfer * 1000), PI, 100000000)

\* The division by the relative angular velocity raises for equal periods.
transfer_window_defined(origin_orbit, destination_orbit) ==
  origin_orbit.period # destination_orbit.period

\* phase_diff_needed / (2 * math.pi * (1/destination_period - 1/origin_period)),
\* formed as phase * Pd * Po / (2 * pi * (Po - Pd)) with the sign of Po - Pd.
WindowDelay(phase_diff_needed, origin_period, destination_period) ==
  LET gap == origin_period - destination_period
      size == MulDiv(MulDiv(phase_diff_needed, destination_period, TWO_PI),
                     origin_period, Abs(gap))
  IN IF gap > 0 THEN size ELSE -size

\* calculate_optimal_transfer_window(origin_orbit, destination_orbit,
\* current_time): periods and times in centi-days, radii in milli-AU.
calculate_optimal_transfer_window(origin_orbit, destination_orbit, current_time) ==
  LET origin_period == origin_orbit.period
      destination_period == destination_orbit.period
      origin_phase == OrbitPhase(current_time, origin_period)
      destination_phase == OrbitPhase(current_time, destination_period)
      r1 == origin_orbit.semi_major_axis
      r2 == destination_orbit.semi_major_axis
      transfer_time == WindowTransferTime(r1, r2)
      phase_needed ==
        IF r2 > r1
        THEN PI - MulDiv(transfer_time, TWO_PI, destination_period)
        ELSE PI + MulDiv(transfer_time, TWO_PI, origin_period)
      \* the two while loops bring the difference into [0, 2 * pi)
      current_phase_diff == (destination_phase - origin_phase) % TWO_PI
      difference == phase_needed - current_phase_diff
      \* the last while loop only adds: a negative value is raised into
      \* [0, 2 * pi), a value of 2 * pi or more is left as it is
      phase_diff_needed == IF difference < 0 THEN difference % TWO_PI ELSE difference
  IN WindowDelay(phase_diff_needed, origin_period, destination_period)

\* ------------------------------------------------------------------------
\* physics/gravity_assist.py

\* The divisions by closest_approach * v_rel**2 and by G * planet_mass raise
\* ZeroDivisionError when one of the three is 0.
gravity_assist_defined(approach_velocity, planet_velocity, planet_mass, closest_approach) ==
  /\ approach_velocity # planet_velocity
  /\ planet_mass # 0
  /\ closest_approach # 0

\* 2 * G * planet_mass / (closest_approach * v_rel**2), scaled by Fx
\* (planet_mass in whole program units, closest_approach in deci units).
AssistRatio(planet_mass, closest_approach, v_rel) ==
  MulDiv(MulDiv(2 * G * planet_mass * LenScale, Fx, closest_approach),
         VelScale * VelScale, v_rel * v_rel)

\* closest_approach * math.sqrt(1 + ratio), deci units.
ImpactParameter(planet_mass, closest_approach, v_rel) ==
  LET radicand == Fx + AssistRatio(planet_mass, closest_approach, v_rel)
      root == IF radicand < 200000 THEN Sqrt(radicand * Fx) ELSE 100 * Sqrt(radicand)
  IN MulDiv(closest_approach, root, Fx)

\* 2 * math.asin(1 / math.sqrt(1 + x**2)) with x = impact_parameter *
\* v_rel**2 / (G * planet_mass): the arcsine is the angle of tangent 1 / x.
DeflectionAngle(planet_mass, closest_approach, v_rel) ==
  LET x == MulDiv(ImpactParameter(planet_mass, closest_approach, v_rel), v_rel * v_rel,
                  LenScale * G * planet_mass)
  IN 2 * Atan2(Fx, x)

\* A variant that leaves the result in the planet's frame of reference.
AssistExit_PlanetFrame(v_rel, new_rel_angle, planet_velocity) ==
  <<MulDiv(v_rel, Cos(new_rel_angle), Fx), MulDiv(v_rel, Sin(new_rel_angle), Fx)>>

\* Lines 53-61: the turned relative velocity, back in the solar frame.
AssistExit(v_rel, new_rel_angle, planet_velocity) ==
  <<MulDiv(v_rel, Cos(new_rel_angle), Fx) + planet_velocity[1],
    MulDiv(v_rel, Sin(new_rel_angle), Fx) + planet_velocity[2]>>

\* calculate_gravity_assist(approach_velocity, planet_velocity, planet_mass,
\* closest_approach); velocities in centi units/day.
calculate_gravity_assist(approach_velocity, planet_velocity, planet_mass, closest_approach) ==
  LET rel_vx == approach_velocity[1] - planet_velocity[1]
      rel_vy == approach_velocity[2] - planet_velocity[2]
      v_rel == Norm(<<rel_vx, rel_vy>>)
      rel_angle == Atan2(rel_vy, rel_vx)
      new_rel_angle == rel_angle + DeflectionAngle(planet_mass, closest_approach, v_rel)
  IN AssistExit(v_rel, new_rel_angle, planet_velocity)

\* calculate_max_velocity_change (lines 65-92): min(2 * planet_speed, 2 * v_rel);
\* the escape velocity it also computes is not used.
calculate_max_velocity_change(approach_velocity, planet_velocity, planet_mass) ==
  LET v_rel == Norm(<<approach_velocity[1] - planet_velocity[1],
                      approach_velocity[2] - planet_velocity[2]>>)
      planet_speed == Norm(planet_velocity)
  IN Min(2 * planet_speed, 2 * v_rel)

\* if planet["mass"] < 10: continue
AssistMassThreshold == 10 * MassScale

\* evaluate_gravity_assist_opportunities, lines 264-329: what one planet that
\* passes the mass test contributes; skipped is the continue of the angle
\* test.  planet_speed is 2 * pi * semi_major_axis * AU / period.
Opportunity(spacecraft_position, spacecraft_velocity, target_position, planet, current_time) ==
  LET orbit_angle == OrbitPhase(current_time, planet.period)
      radius == FromAU(planet.semi_major_axis)
      planet_position == <<MulDiv(radius, Cos(orbit_angle), Fx),
                           MulDiv(radius, Sin(orbit_angle), Fx)>>
      planet_speed == MulDiv(MulDiv(TWO_PI, radius, AngScale),
                             (VelScale * TimeScale) \div LenScale, planet.period)
      planet_velocity == <<-MulDiv(planet_speed, Sin(orbit_angle), Fx),
                           MulDiv(planet_speed, Cos(orbit_angle), Fx)>>
      planet_angle == Atan2(planet_position[2] - spacecraft_position[2],
                            planet_position[1] - spacecraft_position[1])
      target_angle == Atan2(target_position[2] - spacecraft_position[2],
                            target_position[1] - spacecraft_position[1])
      difference == Abs(planet_angle - target_angle)
      angle_diff == IF difference > PI THEN TWO_PI - difference ELSE difference
      max_delta_v == calculate_max_velocity_change(spacecraft_velocity, planet_velocity,
                                                   planet.mass)
  IN [planet_name |-> planet.name,
      skipped |-> angle_diff > (PI * 3) \div 4,
      max_delta_v |-> max_delta_v,
      angle_to_target |-> angle_diff,
      position |-> planet_position,
      velocity |-> planet_velocity,
      mass |-> planet.mass,
      score |-> MulDiv(max_delta_v, PI - angle_diff, PI)]

\* A variant of the sort that puts a candidate before those of equal score.
RECURSIVE InsertByScore_Before(_, _)
InsertByScore_Before(sorted, opp) ==
  IF sorted = <<>> THEN <<opp>>
  ELSE IF Head(sorted).score > opp.score
  THEN <<Head(sorted)>> \o InsertByScore_Before(Tail(sorted), opp)
  ELSE <<opp>> \o sorted

\* opportunities.sort(key=score, reverse=True), one element at a time: the
\* sort is stable, so a candidate goes behind those of equal score that
\* precede it in the list.
RECURSIVE InsertByScore(_, _)
InsertByScore(sorted, opp) ==
  IF sorted = <<>> THEN <<opp>>
  ELSE IF Head(sorted).score >= opp.score
  THEN <<Head(sorted)>> \o InsertByScore(Tail(sorted), opp)
  ELSE <<opp>> \o sorted

\* The divisions of the loop: current_time % planet["period"] for every
\* planet of enough mass, distance_to_planet / current_speed for every one
\* that also passes the angle test.
opportunities_defined(spacecraft_position, spacecraft_velocity, target_position, planets, current_time) ==
  \A k \in 1..Len(planets) :
    planets[k].mass >= AssistMassThreshold =>
      /\ planets[k].period # 0
      /\ \/ Opportunity(spacecraft_position, spacecraft_velocity, target_position,
                        planets[k], current_time).skipped
         \/ Norm(spacecraft_velocity) # 0

\* evaluate_gravity_assist_opportunities (lines 244-338), for arguments that
\* do not make it raise.
RECURSIVE SortedOpportunities(_, _, _, _, _, _, _)
SortedOpportunities(spacecraft_position, spacecraft_velocity, target_position, planets, current_time, k, sorted) ==
  IF k > Len(planets) THEN sorted
  ELSE LET opp == Opportunity(spacecraft_position, spacecraft_velocity, target_position,
                              planets[k], current_time)
       IN SortedOpportunities(spacecraft_position, spacecraft_velocity, target_position,
                              planets, current_time, k + 1,
                              IF planets[k].mass < AssistMassThreshold \/ opp.skipped
                              THEN sorted
                              ELSE InsertByScore(sorted, opp))

evaluate_gravity_assist_opportunities(spacecraft_position, spacecraft_velocity, target_position, planets, current_time) ==
  SortedOpportunities(spacecraft_position, spacecraft_velocity, target_position, planets,
                      current_time, 1, <<>>)

\* ------------------------------------------------------------------------
\* physics/delta_v.py

ShipTypes == {"SHUTTLE", "TRANSPORT", "MILITARY", "ADVANCED"}

\* The exhaust-velocity table and its .get(ship_type, 5.0) default.
exhaust_velocity(ship_type) ==
  CASE ship_type = "SHUTTLE" -> 5
    [] ship_type = "TRANSPORT" -> 4
    [] ship_type = "MILITARY" -> 6
    [] ship_type = "ADVANCED" -> 8
    [] OTHER -> 5

RECURSIVE LnTerms(_, _, _, _)
LnTerms(z, k, power, acc) ==
  IF power = 0 \/ k > 25 THEN acc
  ELSE LET next == Div(Div(power * z, Fx) * z, Fx)
       IN LnTerms(z, k + 2, next, acc + Div(2 * next, k + 2))

\* math.log on the grid for x >= 1 (x and the result scaled by Fx), by the
\* series 2 * (z + z^3/3 + z^5/5 + ...) with z = (x - 1) / (x + 1).
Ln(x) ==
  LET z == ((x - Fx) * Fx) \div (x + Fx)
  IN LnTerms(z, 1, z, 2 * z)

\* A variant with the tank taken as 70% of the ship and the hull as 30%.
calculate_delta_v_budget_Swapped(ship_type, fuel_percentage, ship_mass) ==
  LET dry_mass == ship_mass * 3
      max_fuel_mass == ship_mass * 7
      mass_ratio == MulDiv(dry_mass * FULL_FUEL + max_fuel_mass * fuel_percentage, Fx,
                           dry_mass * FULL_FUEL)
  IN (exhaust_velocity(ship_type) * Ln(mass_ratio) * VelScale) \div Fx

\* calculate_delta_v_budget(ship_type, fuel_percentage, ship_mass): fuel in
\* centi-percent, the result in centi units/day.  Masses in tenths, as below.
calculate_delta_v_budget(ship_type, fuel_percentage, ship_mass) ==
  LET dry_mass == ship_mass * 7
      max_fuel_mass == ship_mass * 3
      \* current_total_mass / dry_mass, with current_fuel_mass =
      \* max_fuel_mass * (fuel_percentage / 100.0)
      mass_ratio == MulDiv(dry_mass * FULL_FUEL + max_fuel_mass * fuel_percentage, Fx,
                           dry_mass * FULL_FUEL)
  IN (exhaust_velocity(ship_type) * Ln(mass_ratio) * VelScale) \div Fx

\* calculate_fuel_consumption(delta_v, ship_type, ship_mass), centi-percent.
\* Masses are carried in tenths so that 0.7 and 0.3 are whole.
calculate_fuel_consumption(delta_v, ship_type, ship_mass) ==
  LET dry_mass == ship_mass * 7
      mass_ratio == Exp((delta_v * (Fx \div VelScale)) \div exhaust_velocity(ship_type))
      fuel_mass_needed == dry_mass * (mass_ratio - Fx)
      max_fuel_mass == ship_mass * 3
  IN MulDiv(fuel_mass_needed \div max_fuel_mass, 100 * PctScale, Fx)

BiEllipticFactors == <<2, 3, 4, 5>>

\* One entry of bi_elliptic_results.
BiEllipticOption(origin_orbit, destination_orbit, r_intermediate, central_mass, ship_type, ship_mass) ==
  LET bi_elliptic == calculate_bi_elliptic_transfer(origin_orbit, destination_orbit,
                                                    r_intermediate, central_mass)
      bi_fuel == calculate_fuel_consumption(bi_elliptic.total_delta_v, ship_type, ship_mass)
  IN [intermediate_radius |-> r_intermediate,
      total_delta_v |-> bi_elliptic.total_delta_v,
      fuel_percentage |-> bi_fuel,
      transfer_time |-> bi_elliptic.total_transfer_time,
      is_possible |-> bi_fuel <= FULL_FUEL]

\* A variant that takes the first feasible entry without comparing the rest.
MinByFuel_First(seq, i, best) == best

\* min(seq, key=fuel_percentage): the first entry of least fuel_percentage.
RECURSIVE MinByFuel(_, _, _)
MinByFuel(seq, i, best) ==
  IF i > Len(seq) THEN best
  ELSE MinByFuel(seq, i + 1,
                 IF seq[i].fuel_percentage < best.fuel_percentage THEN seq[i] ELSE best)

\* A variant that compares the fuel alone and never answers "impossible".
Recommend_Cheapest(hohmann_fuel, optimal_bi_elliptic) ==
  IF optimal_bi_elliptic # None /\ optimal_bi_elliptic.fuel_percentage < hohmann_fuel
  THEN "bi_elliptic"
  ELSE "hohmann"

\* The comparison at the end of calculate_transfer_costs.
Recommend(hohmann_fuel, optimal_bi_elliptic) ==
  IF ~(hohmann_fuel <= FULL_FUEL)
  THEN (IF optimal_bi_elliptic # None THEN "bi_elliptic" ELSE "impossible")
  ELSE (IF optimal_bi_elliptic # None /\ optimal_bi_elliptic.fuel_percentage < hohmann_fuel
        THEN "bi_elliptic"
        ELSE "hohmann")

\* calculate_transfer_costs(origin_orbit, destination_orbit, central_mass,
\*                          ship_type, ship_mass)
calculate_transfer_costs(origin_orbit, destination_orbit, central_mass, ship_type, ship_mass) ==
  LET hohmann == calculate_hohmann_transfer(origin_orbit, destination_orbit, central_mass)
      hohmann_fuel == calculate_fuel_consumption(hohmann.total_delta_v, ship_type, ship_mass)
      far == IF origin_orbit < destination_orbit THEN destination_orbit ELSE origin_orbit
      intermediate_points == [k \in 1..Len(BiEllipticFactors) |-> far * BiEllipticFactors[k]]
      bi_elliptic_results ==
        [k \in 1..Len(intermediate_points) |->
           BiEllipticOption(origin_orbit, destination_orbit, intermediate_points[k],
                            central_mass, ship_type, ship_mass)]
      possible_bi_elliptic == SelectSeq(bi_elliptic_results, LAMBDA b : b.is_possible)
      optimal_bi_elliptic ==
        IF Len(possible_bi_elliptic) > 0
        THEN MinByFuel(possible_bi_elliptic, 2, possible_bi_elliptic[1])
        ELSE None
  IN [hohmann |-> [total_delta_v |-> hohmann.total_delta_v,
                   fuel_percentage |-> hohmann_fuel,
                   transfer_time |-> hohmann.transfer_time,
                   is_possible |-> hohmann_fuel <= FULL_FUEL],
      bi_elliptic_options |-> bi_elliptic_results,
      optimal_bi_elliptic |-> optimal_bi_elliptic,
      recommended_transfer |-> Recommend(hohmann_fuel, optimal_bi_elliptic)]

\* ------------------------------------------------------------------------
\* main.py: the simulation state

VARIABLES
  time,                   \* GameState.time (centi-days)
  time_scale,             \* GameState.time_scale
  celestial_bodies,       \* GameState.celestial_bodies, in list order
  ships,                  \* GameState.ships, in list order
  transfers,              \* GameState.transfers
  selected_object,        \* GameState.selected_object
  show_transfer_planning, \* GameState.show_transfer_planning
  transfer_origin,        \* GameState.transfer_origin
  transfer_destination,   \* GameState.transfer_destination
  crashed,                \* an exception has left main()'s loop
  frames,                 \* update() calls made so far by main()'s loop
  inputs,                 \* input events handled so far by main()'s loop
  console,                \* the last line print() wrote
  costs,                  \* a call of calculate_transfer_costs: arguments, result
  call                    \* a call of one of the other functions of physics/

vars == <<time, time_scale, celestial_bodies, ships, transfers, selected_object,
          show_transfer_planning, transfer_origin, transfer_destination, crashed,
          frames, inputs, console, costs, call>>

\* Bounds of the model.
MaxFrames == 2            \* update() calls explored
MaxInputs == 7            \* key and mouse events explored
MaxTransfers == 2         \* Transfer records explored
ArenaMax == 45000         \* |x|, |y| of a ship, deci units
SpeedMax == 20000         \* |vx|, |vy| of a ship, centi units/day
DtChoices == {2}          \* frame times handed to update(), centi-seconds
NumberKeys == {1, 3, 4}   \* of K_1..K_4, the keys pressed

NoParent == ""

\* ORBITAL_PARAMETERS and MOON_PARAMETERS (src/constants.py), restricted to
\* the Sun, two planets and one moon.  mass in 1/10000, semi_major_axis in
\* milli-AU (Luna's 0.00257 AU rounds to 3), period in centi-days.
ORBITAL_PARAMETERS ==
  << [name |-> "EARTH", mass |-> 10000, semi_major_axis |-> 1000, period |-> 36525],
     [name |-> "MARS", mass |-> 1070, semi_major_axis |-> 1524, period |-> 68700] >>

MOON_PARAMETERS ==
  << [name |-> "LUNA", parent |-> "EARTH", mass |-> 123, semi_major_axis |-> 3,
      period |-> 2730] >>

\* SHIP_TYPES[...]["mass"]
ShipMass(ship_type) ==
  CASE ship_type = "SHUTTLE" -> 5
    [] ship_type = "TRANSPORT" -> 20
    [] ship_type = "MILITARY" -> 15

\* The first body of the list with the given name, or 0 (the code's None).
FindBody(bodies, name) ==
  IF \E j \in 1..Len(bodies) : bodies[j].name = name
  THEN CHOOSE j \in 1..Len(bodies) :
         /\ bodies[j].name = name
         /\ \A k \in 1..(j - 1) : bodies[k].name # name
  ELSE 0

\* initialize_solar_system: the Sun.
InitSun ==
  [name |-> "Sun", mass |-> SUN_MASS * MassScale, semi_major_axis |-> 0,
   orbital_period |-> 0, position |-> <<0, 0>>, velocity |-> <<0, 0>>, angle |-> 0,
   parent |-> NoParent]

\* initialize_solar_system: one planet.
InitPlanet(params) ==
  [name |-> params.name, mass |-> params.mass,
   semi_major_axis |-> params.semi_major_axis, orbital_period |-> params.period,
   position |-> calculate_orbital_position(params.semi_major_axis, 0),
   velocity |-> <<0, calculate_orbital_velocity(SUN_MASS, params.semi_major_axis)>>,
   angle |-> 0, parent |-> NoParent]

\* initialize_solar_system: one moon, placed relative to its parent.
InitMoon(params, bodies) ==
  LET parent == bodies[FindBody(bodies, params.parent)]
      rel_position == calculate_orbital_position(params.semi_major_axis, 0)
  IN [name |-> params.name, mass |-> params.mass,
      semi_major_axis |-> params.semi_major_axis, orbital_period |-> params.period,
      position |-> <<parent.position[1] + rel_position[1],
                     parent.position[2] + rel_position[2]>>,
      velocity |-> <<0, calculate_orbital_velocity(parent.mass \div MassScale,
                                                   params.semi_major_axis)>>,
      angle |-> 0, parent |-> params.parent]

InitBodies ==
  LET planets == <<InitSun>> \o [k \in 1..Len(ORBITAL_PARAMETERS) |->
                                  InitPlanet(ORBITAL_PARAMETERS[k])]
      withParent == SelectSeq(MOON_PARAMETERS,
                              LAMBDA m : FindBody(planets, m.parent) # 0)
  IN planets \o [k \in 1..Len(withParent) |-> InitMoon(withParent[k], planets)]

\* initialize_solar_system: the two ships.
EarthShip(fuel) ==
  LET earth_orbit_radius == FromAU(ORBITAL_PARAMETERS[1].semi_major_axis)
      earth_orbital_velocity ==
        calculate_orbital_velocity(SUN_MASS, ORBITAL_PARAMETERS[1].semi_major_axis)
      earth_ship_angle == PI \div 4
  IN [name |-> "UNSS Explorer", type |-> "SHUTTLE",
      position |-> <<MulDiv(earth_orbit_radius, Cos(earth_ship_angle), Fx),
                     MulDiv(earth_orbit_radius, Sin(earth_ship_angle), Fx)>>,
      velocity |-> <<MulDiv(earth_orbital_velocity, Cos(earth_ship_angle + HALF_PI), Fx),
                     MulDiv(earth_orbital_velocity, Sin(earth_ship_angle + HALF_PI), Fx)>>,
      mass |-> ShipMass("SHUTTLE"), fuel |-> fuel,
      destination |-> None, trajectory |-> None, mission |-> None]

MarsShip(fuel) ==
  LET sma == (ORBITAL_PARAMETERS[2].semi_major_axis * 9) \div 10
  IN [name |-> "MCR Tachi", type |-> "MILITARY",
      position |-> <<FromAU(sma), 0>>,
      velocity |-> <<0, calculate_orbital_velocity(SUN_MASS, sma)>>,
      mass |-> ShipMass("MILITARY"), fuel |-> fuel,
      destination |-> None, trajectory |-> None, mission |-> None]

\* initialize_solar_system: self.ships, fuel 100.0 and 80.0.
InitShips == <<EarthShip(FULL_FUEL), MarsShip(80 * PctScale)>>

\* GameState.__init__
Init ==
  /\ time = 0
  /\ time_scale = 1
  /\ celestial_bodies = InitBodies
  /\ ships = InitShips
  /\ transfers = <<>>
  /\ selected_object = None
  /\ show_transfer_planning = FALSE
  /\ transfer_origin = None
  /\ transfer_destination = None
  /\ crashed = FALSE
  /\ frames = 0
  /\ inputs = 0
  /\ console = None
  /\ costs = None
  /\ call = None

\* ------------------------------------------------------------------------
\* GameState.update: celestial bodies (lines 200-256)

\* (2 * math.pi / orbital_period) * DAY_PER_SECOND * game_dt
AngleChange(orbital_period, game_dt) ==
  MulDiv(TWO_PI, DAY_PER_SECOND * game_dt, orbital_period)

\* A variant that keeps a moon about the place its parent had at the start.
UpdateBody_Stale(bodies, i, game_dt) ==
  LET body == bodies[i]
      angle == body.angle + AngleChange(body.orbital_period, game_dt)
      pj == FindBody(bodies, body.parent)
      rel_position == calculate_orbital_position(body.semi_major_axis, angle)
  IN IF body.orbital_period = 0 THEN body
     ELSE IF body.parent # NoParent /\ pj # 0
     THEN [body EXCEPT
             !.angle = angle,
             !.position = <<InitBodies[pj].position[1] + rel_position[1],
                            InitBodies[pj].position[2] + rel_position[2]>>]
     ELSE [body EXCEPT
             !.angle = angle,
             !.position = calculate_orbital_position(body.semi_major_axis, angle)]

\* One pass of the loop body for bodies[i]; bodies earlier in the list have
\* already been updated in place.
UpdateBody(bodies, i, game_dt) ==
  LET body == bodies[i]
      angle == body.angle + AngleChange(body.orbital_period, game_dt)
      vel_angle == angle + HALF_PI
  IN IF body.name = "SUN" THEN body
     ELSE IF body.orbital_period = 0 THEN body
     ELSE IF body.parent # NoParent
     THEN LET pj == FindBody(bodies, body.parent)
              parent == bodies[pj]
              rel_position == calculate_orbital_position(body.semi_major_axis, angle)
              orbit_vel == calculate_orbital_velocity(parent.mass \div MassScale,
                                                      body.semi_major_axis)
          IN IF pj = 0 THEN body
             ELSE [body EXCEPT
                     !.angle = angle,
                     !.position = <<parent.position[1] + rel_position[1],
                                    parent.position[2] + rel_position[2]>>,
                     !.velocity = <<MulDiv(orbit_vel, Cos(vel_angle), Fx) + parent.velocity[1],
                                    MulDiv(orbit_vel, Sin(vel_angle), Fx) + parent.velocity[2]>>]
     ELSE LET orbit_vel == calculate_orbital_velocity(SUN_MASS, body.semi_major_axis)
          IN [body EXCEPT
                !.angle = angle,
                !.position = calculate_orbital_position(body.semi_major_axis, angle),
                !.velocity = <<MulDiv(orbit_vel, Cos(vel_angle), Fx),
                               MulDiv(orbit_vel, Sin(vel_angle), Fx)>>]

\* for body in self.celestial_bodies: ...
RECURSIVE UpdateBodies(_, _, _)
UpdateBodies(bodies, i, game_dt) ==
  IF i > Len(bodies) THEN bodies
  ELSE UpdateBodies([bodies EXCEPT ![i] = UpdateBody(bodies, i, game_dt)], i + 1, game_dt)

\* ------------------------------------------------------------------------
\* GameState.calculate_orbital_elements (lines 387-421)

EccMax == 45 * 1000

\* 0.5 * v**2 - G * M / r, in (centi units/day)^2; r is taken to a
\* thousandth of the grid step so that G*M/r keeps six digits.
SpecificEnergy(position, velocity) ==
  LET r == NormFine(position)
      v2 == velocity[1] * velocity[1] + velocity[2] * velocity[2]
      gm_over_r == IF r < 5000 THEN 2000000000
                   ELSE MulDiv(G * SUN_MASS * Fx, LenScale * 1000, r)
  IN (v2 \div 2) - gm_over_r

\* position[0] * velocity[1] - position[1] * velocity[0]
AngularMomentum(position, velocity) ==
  position[1] * velocity[2] - position[2] * velocity[1]

\* The function divides by r and by 2 * energy: it raises ZeroDivisionError
\* when either is 0.
orbital_elements_defined(position, velocity) ==
  /\ Norm(position) # 0
  /\ SpecificEnergy(position, velocity) # 0

\* sqrt(1 + 2 * energy * h**2 / (G*M)**2), scaled by Fx and saturating at
\* EccMax.  The radicand is formed in millionths; a radicand that rounding
\* leaves below 0 counts as 0.
Eccentricity(position, velocity) ==
  LET energy == SpecificEnergy(position, velocity)
      h == AngularMomentum(position, velocity)
      p == MulDiv(h, h, 10000000)        \* h**2 / (G*M), in 1/10000 unit
      coarse == MulDiv(Abs(energy) \div Fx, (2 * p) \div Fx, 10000000)
      radicand == 1000000 + MulDiv(energy, 2 * p, 10000000)
  IN IF Abs(h) > 100000000 \/ coarse >= 10 THEN EccMax
     ELSE IF radicand <= 0 THEN 0
     ELSE IF radicand >= 20000000 THEN EccMax
     ELSE Sqrt(radicand * 100)

\* 2 * pi * sqrt(semi_major_axis**3 / GM) with semi_major_axis =
\* -GM / (2 * energy), for energy < 0; centi-days.
OrbitPeriod(energy) ==
  2 * HalfPeriod(SUN_MASS, MulDiv(G * SUN_MASS * Fx, LenScale, -energy))

\* period = None; if eccentricity < 1: period = ...
ElementsPeriod(eccentricity, energy) ==
  IF eccentricity < Fx THEN Value(OrbitPeriod(energy)) ELSE None

\* What the call gives, an exception included.
calculate_orbital_elements(position, velocity) ==
  IF ~orbital_elements_defined(position, velocity) THEN [raised |-> "ZeroDivisionError"]
  ELSE [eccentricity |-> Eccentricity(position, velocity),
        energy |-> SpecificEnergy(position, velocity),
        angular_momentum |-> AngularMomentum(position, velocity),
        period |-> ElementsPeriod(Eccentricity(position, velocity),
                                  SpecificEnergy(position, velocity))]

\* ------------------------------------------------------------------------
\* GameState.update: one ship (lines 259-384)

\* A variant that does not wait for the arrival time: the burn is due as
\* soon as the mission has started.
ArrivalDue_Early(ship, now) ==
  /\ ship.mission # None
  /\ ship.mission.type = "hohmann_transfer"
  /\ now >= ship.mission.start_time

\* self.time >= mission["arrival_time"]
ArrivalDue(ship, now) ==
  /\ ship.mission # None
  /\ ship.mission.type = "hohmann_transfer"
  /\ now >= ship.mission.arrival_time

\* abs(ship_radius - target_radius) / target_radius < 0.1
InWindow(ship) ==
  LET target_radius == ship.mission.target_orbit_radius
      ship_radius == Norm(ship.position)
  IN (Abs(ship_radius - target_radius) * Fx) \div target_radius < Fx \div 10

\* The arrival burn is attempted in this tick.
ArrivalAttempted(ship, now) == ArrivalDue(ship, now) /\ InWindow(ship)

\* calculate_fuel_consumption(mission["delta_v2"], ship["type"], ship["mass"])
ArrivalFuel(ship) ==
  calculate_fuel_consumption(ship.mission.delta_v2, ship.type, ship.mass)

\* A variant that keeps the mission when the burn is not afforded, to try it
\* again in the next tick.
ArrivalBurn_Retry(ship, now) ==
  IF ~ArrivalAttempted(ship, now) THEN ship
  ELSE LET ship_pos == ship.position
           vel_angle == Atan2(ship_pos[2], ship_pos[1]) + HALF_PI
           orbit_vel == calculate_orbital_velocity(SUN_MASS, ToAU(Norm(ship_pos)))
       IN IF ArrivalFuel(ship) <= ship.fuel
          THEN [ship EXCEPT
                  !.fuel = ship.fuel - ArrivalFuel(ship),
                  !.velocity = <<MulDiv(orbit_vel, Cos(vel_angle), Fx),
                                 MulDiv(orbit_vel, Sin(vel_angle), Fx)>>,
                  !.mission = None, !.trajectory = None]
          ELSE ship

\* A variant whose afforded burn adds delta_v2 along the direction of travel
\* in place of setting the circular velocity.
ArrivalBurn_Prograde(ship, now) ==
  IF ~ArrivalAttempted(ship, now) THEN ship
  ELSE LET ship_pos == ship.position
           vel_angle == Atan2(ship_pos[2], ship_pos[1]) + HALF_PI
           delta_v == ship.mission.delta_v2
           burned == IF ArrivalFuel(ship) <= ship.fuel
                     THEN [ship EXCEPT
                             !.fuel = ship.fuel - ArrivalFuel(ship),
                             !.velocity = <<ship.velocity[1] + MulDiv(delta_v, Cos(vel_angle), Fx),
                                            ship.velocity[2] + MulDiv(delta_v, Sin(vel_angle), Fx)>>]
                     ELSE ship
       IN [burned EXCEPT !.mission = None, !.trajectory = None]

\* A variant whose attempt clears the mission and leaves the trajectory.
ArrivalBurn_KeepsTrajectory(ship, now) ==
  IF ~ArrivalAttempted(ship, now) THEN ship
  ELSE LET ship_pos == ship.position
           vel_angle == Atan2(ship_pos[2], ship_pos[1]) + HALF_PI
           orbit_vel == calculate_orbital_velocity(SUN_MASS, ToAU(Norm(ship_pos)))
           burned == IF ArrivalFuel(ship) <= ship.fuel
                     THEN [ship EXCEPT
                             !.fuel = ship.fuel - ArrivalFuel(ship),
                             !.velocity = <<MulDiv(orbit_vel, Cos(vel_angle), Fx),
                                            MulDiv(orbit_vel, Sin(vel_angle), Fx)>>]
                     ELSE ship
       IN [burned EXCEPT !.mission = None]

\* Lines 261-308: the mission branch.
ArrivalBurn(ship, now) ==
  IF ~ArrivalAttempted(ship, now) THEN ship
  ELSE LET ship_pos == ship.position
           ship_radius == Norm(ship_pos)
           ship_angle == Atan2(ship_pos[2], ship_pos[1])
           vel_angle == ship_angle + HALF_PI
           fuel_required == ArrivalFuel(ship)
           orbit_vel == calculate_orbital_velocity(SUN_MASS, ToAU(ship_radius))
           burned == IF fuel_required <= ship.fuel
                     THEN [ship EXCEPT
                             !.fuel = ship.fuel - fuel_required,
                             !.velocity = <<MulDiv(orbit_vel, Cos(vel_angle), Fx),
                                            MulDiv(orbit_vel, Sin(vel_angle), Fx)>>]
                     ELSE ship
       IN [burned EXCEPT !.mission = None, !.trajectory = None]

\* The elif of line 311.
StationKeepingGate(ship) ==
  /\ ~(ship.mission # None /\ ship.mission.type = "hohmann_transfer")
  /\ ship.destination = None
  /\ ship.trajectory = None
  /\ ship.fuel > 0

\* ideal velocity minus velocity (lines 326-335); needs a non-zero radius.
Correction(ship) ==
  LET position == ship.position
      r == Norm(position)
      angle == Atan2(position[2], position[1])
      ideal_velocity == calculate_orbital_velocity(SUN_MASS, ToAU(r))
      ideal_vel_x == MulDiv(ideal_velocity, Cos(angle + HALF_PI), Fx)
      ideal_vel_y == MulDiv(ideal_velocity, Sin(angle + HALF_PI), Fx)
  IN <<ideal_vel_x - ship.velocity[1], ideal_vel_y - ship.velocity[2]>>

\* Both thresholds of lines 324 and 339 are passed (0.01 each).
StationKeepingNeeded(ship) ==
  /\ Eccentricity(ship.position, ship.velocity) > Fx \div 100
  /\ Norm(Correction(ship)) > VelScale \div 100

\* The fuel of one station-keeping correction: 0.01 percent.
StationKeepingFuel == PctScale \div 100

\* A variant that applies the whole correction at once: the ship is put on
\* the ideal circular velocity.
StationKeep_Full(ship) ==
  IF ~StationKeepingNeeded(ship) THEN ship
  ELSE LET correction == Correction(ship)
       IN [ship EXCEPT
             !.velocity = <<ship.velocity[1] + correction[1],
                            ship.velocity[2] + correction[2]>>,
             !.fuel = Max(0, ship.fuel - StationKeepingFuel)]

\* Lines 312-350: the station-keeping correction itself.
StationKeep(ship) ==
  IF ~StationKeepingNeeded(ship) THEN ship
  ELSE LET correction == Correction(ship)
           correction_magnitude == Norm(correction)
           \* min(0.1, correction_magnitude / 10), scaled by Fx
           correction_factor == Min(Fx \div 10, (correction_magnitude * Fx) \div (10 * VelScale))
       IN [ship EXCEPT
             !.velocity = <<ship.velocity[1] + MulDiv(correction[1], correction_factor, Fx),
                            ship.velocity[2] + MulDiv(correction[2], correction_factor, Fx)>>,
             !.fuel = Max(0, ship.fuel - StationKeepingFuel)]

\* Whether the per-ship pass raises: station-keeping calls
\* calculate_orbital_elements, which divides by r and by the energy.
ShipRaises(ship) ==
  /\ StationKeepingGate(ship)
  /\ ~orbital_elements_defined(ship.position, ship.velocity)

\* A variant with two ifs in place of the if / elif, the second one without
\* the test for a trajectory: station-keeping also runs during a mission.
Maneuvers_Both(ship, now) ==
  LET arrived == IF ship.mission # None /\ ship.mission.type = "hohmann_transfer"
                 THEN ArrivalBurn(ship, now)
                 ELSE ship
  IN IF arrived.destination = None /\ arrived.fuel > 0 THEN StationKeep(arrived)
     ELSE arrived

\* if mission ...: arrival branch / elif ...: station-keeping.
Maneuvers(ship, now) ==
  IF ship.mission # None /\ ship.mission.type = "hohmann_transfer"
  THEN ArrivalBurn(ship, now)
  ELSE IF StationKeepingGate(ship) THEN StationKeep(ship)
  ELSE ship

\* dx / distance * (G * mass / distance_sq), one component of one body's
\* pull in centi units/day^2 (the same product, divided in two steps).
ForceComponent(mass, d, distance, distance_sq) ==
  Div(MulDiv(G * mass, d, distance_sq), distance)

\* The same component beyond 30000 grid steps, where distance_sq does not
\* fit: the offsets are halved before they are squared.
FarForceComponent(mass, d, dx, dy) ==
  LET hx == Div(dx, 2)
      hy == Div(dy, 2)
  IN Div(MulDiv((G * mass) \div 4, d, hx * hx + hy * hy), Norm(<<dx, dy>>))

\* Lines 353-372: the summed acceleration from bodies[i..].
RECURSIVE TotalForce(_, _, _)
TotalForce(bodies, i, position) ==
  IF i > Len(bodies) THEN <<0, 0>>
  ELSE LET rest == TotalForce(bodies, i + 1, position)
           dx == bodies[i].position[1] - position[1]
           dy == bodies[i].position[2] - position[2]
           far == Abs(dx) > 30000 \/ Abs(dy) > 30000
           distance_sq == IF far THEN 0 ELSE dx * dx + dy * dy
           distance == Sqrt(distance_sq)
       IN IF far
          THEN <<rest[1] + FarForceComponent(bodies[i].mass, dx, dx, dy),
                 rest[2] + FarForceComponent(bodies[i].mass, dy, dx, dy)>>
          ELSE IF distance_sq < LenScale * LenScale THEN rest
          ELSE <<rest[1] + ForceComponent(bodies[i].mass, dx, distance, distance_sq),
                 rest[2] + ForceComponent(bodies[i].mass, dy, distance, distance_sq)>>

\* Lines 374-384: velocity, then position, by one explicit step.
Integrate(ship, bodies, game_dt) ==
  LET force == TotalForce(bodies, 1, ship.position)
      velocity == <<ship.velocity[1] + MulDiv(force[1], game_dt, TimeScale),
                    ship.velocity[2] + MulDiv(force[2], game_dt, TimeScale)>>
  IN [ship EXCEPT
        !.velocity = velocity,
        !.position = <<ship.position[1] + MulDiv(velocity[1], game_dt,
                                                   (VelScale * TimeScale) \div LenScale),
                       ship.position[2] + MulDiv(velocity[2], game_dt,
                                                   (VelScale * TimeScale) \div LenScale)>>]

\* The whole loop body for one ship that does not raise.
UpdateShip(ship, now, bodies, game_dt) ==
  Integrate(Maneuvers(ship, now), bodies, game_dt)

\* A variant in which the ships pull on each other: every ship is moved
\* under the bodies and under the other ships where the loop has left them.
RECURSIVE UpdateShips_Attracting(_, _, _, _, _)
UpdateShips_Attracting(list, i, now, bodies, game_dt) ==
  IF i > Len(list) THEN [ships |-> list, raised |-> FALSE]
  ELSE IF ShipRaises(list[i]) THEN [ships |-> list, raised |-> TRUE]
  ELSE LET others == SelectSeq([k \in 1..Len(list) |->
                                  [position |-> list[k].position,
                                   mass |-> IF k = i THEN 0 ELSE list[k].mass * MassScale]],
                               LAMBDA b : b.mass # 0)
       IN UpdateShips_Attracting(
            [list EXCEPT ![i] = UpdateShip(list[i], now, bodies \o others, game_dt)],
            i + 1, now, bodies, game_dt)

\* for ship in self.ships: ... ; the loop ends at the first ship that raises.
RECURSIVE UpdateShips(_, _, _, _, _)
UpdateShips(list, i, now, bodies, game_dt) ==
  IF i > Len(list) THEN [ships |-> list, raised |-> FALSE]
  ELSE IF ShipRaises(list[i]) THEN [ships |-> list, raised |-> TRUE]
  ELSE UpdateShips([list EXCEPT ![i] = UpdateShip(list[i], now, bodies, game_dt)],
                   i + 1, now, bodies, game_dt)

\* The two lines update() prints (lines 302 and 304).
ArrivalMessage(ship) ==
  IF ArrivalFuel(ship) <= ship.fuel
  THEN [line |-> "Transfer completed", ship |-> ship.name]
  ELSE [line |-> "Not enough fuel for arrival burn!", ship |-> ship.name]

\* The last line printed once the loop over the ships has ended.
RECURSIVE Printed(_, _, _, _)
Printed(list, i, now, last) ==
  IF i > Len(list) THEN last
  ELSE IF ShipRaises(list[i]) THEN last
  ELSE Printed(list, i + 1, now,
               IF ArrivalAttempted(list[i], now) THEN ArrivalMessage(list[i]) ELSE last)

InArena(ship) ==
  /\ Abs(ship.position[1]) <= ArenaMax /\ Abs(ship.position[2]) <= ArenaMax
  /\ Abs(ship.velocity[1]) <= SpeedMax /\ Abs(ship.velocity[2]) <= SpeedMax

\* A variant whose ships are moved before the bodies: their gravity step
\* reads the positions the bodies had when the tick began.
Update_ShipsFirst(dt) ==
  LET game_dt == dt * time_scale
      now == time + DAY_PER_SECOND * game_dt
  IN /\ ~crashed
     /\ frames < MaxFrames
     /\ frames' = frames + 1
     /\ time' = now
     /\ celestial_bodies' = UpdateBodies(celestial_bodies, 1, game_dt)
     /\ \E result \in {UpdateShips(ships, 1, now, celestial_bodies, game_dt)} :
          /\ ships' = result.ships
          /\ crashed' = result.raised
     /\ console' = Printed(ships, 1, now, console)
     /\ \A i \in 1..Len(ships') : InArena(ships'[i])
     /\ UNCHANGED <<time_scale, transfers, selected_object, show_transfer_planning,
                    transfer_origin, transfer_destination, inputs, costs, call>>

\* GameState.update(dt), called once per frame by main().
Update(dt) ==
  LET game_dt == dt * time_scale
      now == time + DAY_PER_SECOND * game_dt
  IN /\ ~crashed
     /\ frames < MaxFrames
     /\ frames' = frames + 1
     /\ time' = now
     /\ celestial_bodies' = UpdateBodies(celestial_bodies, 1, game_dt)
     /\ \E result \in {UpdateShips(ships, 1, now, celestial_bodies', game_dt)} :
          /\ ships' = result.ships
          /\ crashed' = result.raised
     /\ console' = Printed(ships, 1, now, console)
     /\ \A i \in 1..Len(ships') : InArena(ships'[i])
     /\ UNCHANGED <<time_scale, transfers, selected_object, show_transfer_planning,
                    transfer_origin, transfer_destination, inputs, costs, call>>

\* ------------------------------------------------------------------------
\* GameInputHandler (lines 909-1238)

\* References to the dictionaries the UI fields point at.
ShipRef(i) == [kind |-> "ship", index |-> i]
BodyRef(j) == [kind |-> "body", index |-> j]
ShipRefs == {ShipRef(i) : i \in 1..Len(ships)}
BodyRefs == {BodyRef(j) : j \in 1..Len(celestial_bodies)}
\* "type" in obj: only ship dictionaries carry a type.
IsShip(obj) == obj \in ShipRefs

\* TimeScaleKeys: K_1..K_4 (lines 958-965)
KeyTimeScale(key) ==
  CASE key = 1 -> 1 [] key = 2 -> 10 [] key = 3 -> 100 [] key = 4 -> 1000

UIUnchanged == UNCHANGED <<selected_object, show_transfer_planning, transfer_origin,
                           transfer_destination>>
\* main(): one more event is taken from pygame.event.get().
Handled == inputs < MaxInputs /\ inputs' = inputs + 1
WorldUnchanged ==
  /\ Handled
  /\ UNCHANGED <<time, celestial_bodies, ships, transfers, crashed, frames, console, costs,
                 call>>

\* handle_keydown: K_SPACE toggles pause.
KeySpace ==
  /\ ~crashed
  /\ time_scale' = IF time_scale > 0 THEN 0 ELSE 1
  /\ UIUnchanged /\ WorldUnchanged

\* handle_keydown: K_1, K_2, K_3, K_4.
KeyNumber(key) ==
  /\ ~crashed
  /\ time_scale' = KeyTimeScale(key)
  /\ UIUnchanged /\ WorldUnchanged

\* A variant of K_ESCAPE that also empties the list of past transfers.
KeyEscape_Forgets ==
  /\ ~crashed
  /\ selected_object' = None
  /\ show_transfer_planning' = FALSE
  /\ transfer_origin' = None
  /\ transfer_destination' = None
  /\ transfers' = <<>>
  /\ Handled
  /\ UNCHANGED <<time, time_scale, celestial_bodies, ships, crashed, frames, console,
                 costs, call>>

\* handle_keydown: K_ESCAPE.
KeyEscape ==
  /\ ~crashed
  /\ selected_object' = None
  /\ show_transfer_planning' = FALSE
  /\ transfer_origin' = None
  /\ transfer_destination' = None
  /\ UNCHANGED time_scale /\ WorldUnchanged

\* handle_mousedown, button 3: cancel the plan.
RightClick ==
  /\ ~crashed
  /\ show_transfer_planning
  /\ show_transfer_planning' = FALSE
  /\ transfer_origin' = None
  /\ transfer_destination' = None
  /\ UNCHANGED <<time_scale, selected_object>> /\ WorldUnchanged

\* handle_mousedown, button 1, on the plan button (lines 984-994).
ClickPlan ==
  /\ ~crashed
  /\ selected_object # None /\ IsShip(selected_object)
  /\ show_transfer_planning' = ~show_transfer_planning
  /\ IF ~show_transfer_planning
     THEN transfer_origin' = selected_object /\ transfer_destination' = None
     ELSE UNCHANGED <<transfer_origin, transfer_destination>>
  /\ UNCHANGED <<time_scale, selected_object>> /\ WorldUnchanged

\* handle_mousedown + handle_mouseup, button 1, on the map: clicked is what
\* find_object_at_position returns (a body, a ship or None).
ClickMap(clicked) ==
  /\ ~crashed
  /\ IF show_transfer_planning
     THEN /\ transfer_destination' =
               IF clicked # None /\ ~IsShip(clicked) THEN clicked ELSE transfer_destination
          /\ UNCHANGED selected_object
     ELSE /\ selected_object' = clicked
          /\ UNCHANGED transfer_destination
  /\ UNCHANGED <<time_scale, show_transfer_planning, transfer_origin>> /\ WorldUnchanged

\* execute_transfer, lines 1131-1153: the plan and its first-burn fuel.
TransferRadii ==
  [ship_radius |-> Norm(ships[transfer_origin.index].position),
   dest_radius |-> Norm(celestial_bodies[transfer_destination.index].position)]

TransferData ==
  calculate_hohmann_transfer(ToAU(TransferRadii.ship_radius), ToAU(TransferRadii.dest_radius),
                             SUN_MASS)

TransferFuel ==
  LET ship == ships[transfer_origin.index]
  IN calculate_fuel_consumption(TransferData.delta_v1, ship.type, ship.mass)

\* execute_transfer, lines 1159-1238: the ship after a burn that is afforded.
BurnedShip(ship, destination, now) ==
  LET ship_pos == ship.position
      ship_vel == ship.velocity
      ship_radius == Norm(ship_pos)
      dest_radius == Norm(destination.position)
      ship_angle == Atan2(ship_pos[2], ship_pos[1])
      transfer_data == calculate_hohmann_transfer(ToAU(ship_radius), ToAU(dest_radius), SUN_MASS)
      fuel_required == calculate_fuel_consumption(transfer_data.delta_v1, ship.type, ship.mass)
      vel_angle == ship_angle + HALF_PI
      burn == <<MulDiv(transfer_data.delta_v1, Cos(vel_angle), Fx),
                MulDiv(transfer_data.delta_v1, Sin(vel_angle), Fx)>>
      new_velocity == IF ship_radius < dest_radius
                      THEN <<ship_vel[1] + burn[1], ship_vel[2] + burn[2]>>
                      ELSE <<ship_vel[1] - burn[1], ship_vel[2] - burn[2]>>
      end_position == <<MulDiv(dest_radius, Cos(ship_angle + PI), Fx),
                        MulDiv(dest_radius, Sin(ship_angle + PI), Fx)>>
  IN [ship EXCEPT
        !.fuel = ship.fuel - fuel_required,
        !.velocity = new_velocity,
        !.trajectory = generate_hohmann_trajectory_points(ship_pos, end_position, 50),
        !.mission = [type |-> "hohmann_transfer",
                     target_body |-> destination.name,
                     start_time |-> now,
                     arrival_time |-> now + transfer_data.transfer_time,
                     delta_v2 |-> transfer_data.delta_v2,
                     target_orbit_radius |-> dest_radius,
                     target_orbit_angle |-> ship_angle + PI]]

\* A variant whose record ends when it starts: the transfer time is left out.
TransferRecord_Departure(ship, destination, now) ==
  LET ship_radius == Norm(ship.position)
      dest_radius == Norm(destination.position)
      transfer_data == calculate_hohmann_transfer(ToAU(ship_radius), ToAU(dest_radius), SUN_MASS)
  IN [type |-> "hohmann",
      ship |-> ship.name,
      start_orbit |-> ship_radius,
      end_orbit |-> dest_radius,
      start_angle |-> Atan2(ship.position[2], ship.position[1]),
      start_time |-> now,
      end_time |-> now,
      delta_v1 |-> transfer_data.delta_v1,
      delta_v2 |-> transfer_data.delta_v2]

\* The record appended to self.transfers (lines 1206-1218).
TransferRecord(ship, destination, now) ==
  LET ship_radius == Norm(ship.position)
      dest_radius == Norm(destination.position)
      transfer_data == calculate_hohmann_transfer(ToAU(ship_radius), ToAU(dest_radius), SUN_MASS)
  IN [type |-> "hohmann",
      ship |-> ship.name,
      start_orbit |-> ship_radius,
      end_orbit |-> dest_radius,
      start_angle |-> Atan2(ship.position[2], ship.position[1]),
      start_time |-> now,
      end_time |-> now + transfer_data.transfer_time,
      delta_v1 |-> transfer_data.delta_v1,
      delta_v2 |-> transfer_data.delta_v2]

\* calculate_hohmann_transfer raises for a radius of 0.
TransferRaises ==
  ~hohmann_defined(ToAU(TransferRadii.ship_radius), ToAU(TransferRadii.dest_radius))

\* A variant without the fuel check.
TransferRejected_Never == FALSE /\ TransferFuel > ships[transfer_origin.index].fuel

\* A variant with the comparison turned round.
TransferRejected_Reversed == TransferFuel < ships[transfer_origin.index].fuel

\* if fuel_required > ship["fuel"]: print(...); return
TransferRejected == TransferFuel > ships[transfer_origin.index].fuel

\* handle_mousedown, button 1, on the execute button (lines 996-1004), and
\* execute_transfer (lines 1122-1238).
ClickExecute ==
  /\ ~crashed
  /\ Len(transfers) < MaxTransfers
  /\ selected_object # None /\ IsShip(selected_object)
  /\ show_transfer_planning
  /\ transfer_origin # None
  /\ transfer_destination # None
  /\ IF TransferRaises
     THEN /\ crashed' = TRUE
          /\ UNCHANGED <<ships, transfers, console>> /\ UIUnchanged
     ELSE IF TransferRejected
     THEN /\ console' = [line |-> "Not enough fuel!",
                         ship |-> ships[transfer_origin.index].name]
          /\ UNCHANGED <<ships, transfers, crashed>> /\ UIUnchanged
     ELSE LET i == transfer_origin.index
              destination == celestial_bodies[transfer_destination.index]
          IN /\ ships' = [ships EXCEPT ![i] = BurnedShip(ships[i], destination, time)]
             /\ transfers' = Append(transfers, TransferRecord(ships[i], destination, time))
             /\ show_transfer_planning' = FALSE
             /\ transfer_origin' = None
             /\ transfer_destination' = None
             /\ UNCHANGED <<selected_object, crashed, console>>
  /\ Handled
  /\ UNCHANGED <<time, time_scale, celestial_bodies, frames, costs, call>>

\* One pass of main()'s loop handles any of the events, then updates.
Next ==
  \/ KeySpace
  \/ \E key \in NumberKeys : KeyNumber(key)
  \/ KeyEscape
  \/ RightClick
  \/ ClickPlan
  \/ \E clicked \in ShipRefs \cup BodyRefs \cup {None} : ClickMap(clicked)
  \/ ClickExecute
  \/ \E dt \in DtChoices : Update(dt)

Spec == Init /\ [][Next]_vars

\* The game later on: update()'s station-keeping, 0.01 percent a tick, has
\* drained the first ship's tank to 1 percent or to nothing, and the ship is
\* a quarter turn further on its orbit, at Earth's distance from the origin.
DrainedFuels == {0, PctScale}

DrainedShip(fuel) ==
  LET ship == EarthShip(fuel)
  IN [ship EXCEPT
        !.position = <<0, FromAU(ORBITAL_PARAMETERS[1].semi_major_axis)>>,
        !.velocity = <<-calculate_orbital_velocity(SUN_MASS,
                                                   ORBITAL_PARAMETERS[1].semi_major_axis), 0>>]

InitDrained ==
  /\ time = 0
  /\ time_scale = 1
  /\ celestial_bodies = InitBodies
  /\ \E fuel \in DrainedFuels : ships = <<DrainedShip(fuel), MarsShip(80 * PctScale)>>
  /\ transfers = <<>>
  /\ selected_object = None
  /\ show_transfer_planning = FALSE
  /\ transfer_origin = None
  /\ transfer_destination = None
  /\ crashed = FALSE
  /\ frames = 0
  /\ inputs = 0
  /\ console = None
  /\ costs = None
  /\ call = None

SpecDrained == InitDrained /\ [][Next]_vars

\* The same ship with 1 or 2 percent left: the two burns towards Luna cost
\* 0.93 percent each, so the second one is refused from 1 percent and
\* afforded from 2.
InitArrival ==
  /\ time = 0
  /\ time_scale = 1
  /\ celestial_bodies = InitBodies
  /\ \E fuel \in {PctScale, 2 * PctScale} :
       ships = <<DrainedShip(fuel), MarsShip(80 * PctScale)>>
  /\ transfers = <<>>
  /\ selected_object = None
  /\ show_transfer_planning = FALSE
  /\ transfer_origin = None
  /\ transfer_destination = None
  /\ crashed = FALSE
  /\ frames = 0
  /\ inputs = 0
  /\ console = None
  /\ costs = None
  /\ call = None

SpecArrival == InitArrival /\ [][Next]_vars

\* update() handed a ship wherever it may be: before the first tick the first
\* ship is put on the central star or on Earth, on its unchanged velocity.
PlacedPositions == {InitSun.position, InitBodies[2].position}

PlacedShip(position) == [EarthShip(FULL_FUEL) EXCEPT !.position = position]

InitPlaced ==
  /\ time = 0
  /\ time_scale = 1
  /\ celestial_bodies = InitBodies
  /\ \E position \in PlacedPositions :
       ships = <<PlacedShip(position), MarsShip(80 * PctScale)>>
  /\ transfers = <<>>
  /\ selected_object = None
  /\ show_transfer_planning = FALSE
  /\ transfer_origin = None
  /\ transfer_destination = None
  /\ crashed = FALSE
  /\ frames = 0
  /\ inputs = 0
  /\ console = None
  /\ costs = None
  /\ call = None

SpecPlaced == InitPlaced /\ [][Next]_vars

\* ------------------------------------------------------------------------
\* calculate_transfer_costs on its own: the arguments are drawn at the start
\* and the one step is the call.  Orbits in milli-AU.
CostOrbits == {380, 387, 1000, 1524, 5203}
CostMasses == {10, 11, 12}
CostShipTypes == ShipTypes \cup {"PROBE"}
CostShipMasses == {5, 20}

InitCosts ==
  /\ time = 0
  /\ time_scale = 1
  /\ celestial_bodies = InitBodies
  /\ ships = InitShips
  /\ transfers = <<>>
  /\ selected_object = None
  /\ show_transfer_planning = FALSE
  /\ transfer_origin = None
  /\ transfer_destination = None
  /\ crashed = FALSE
  /\ frames = 0
  /\ inputs = 0
  /\ console = None
  /\ call = None
  /\ \E origin_orbit \in CostOrbits, destination_orbit \in CostOrbits,
        central_mass \in CostMasses, ship_type \in CostShipTypes,
        ship_mass \in CostShipMasses :
       costs = [origin_orbit |-> origin_orbit, destination_orbit |-> destination_orbit,
                central_mass |-> central_mass, ship_type |-> ship_type,
                ship_mass |-> ship_mass, result |-> None]

\* The call returns.
TransferCosts ==
  /\ costs.result = None
  /\ costs' = [costs EXCEPT !.result =
                 calculate_transfer_costs(costs.origin_orbit, costs.destination_orbit,
                                          costs.central_mass, costs.ship_type,
                                          costs.ship_mass)]
  /\ UNCHANGED <<time, time_scale, celestial_bodies, ships, transfers, selected_object,
                 show_transfer_planning, transfer_origin, transfer_destination, crashed,
                 frames, inputs, console, call>>

SpecCosts == InitCosts /\ [][TransferCosts]_vars

\* ------------------------------------------------------------------------
\* The other functions of physics/ and GameState.calculate_orbital_elements,
\* each called on its own: the function and its arguments are drawn at the
\* start and the one step is the call.

\* Orbit radii in milli-AU and central masses for calculate_hohmann_transfer.
HohmannRadii == {387, 723, 1000, 1524, 5203}
HohmannMasses == {10, SUN_MASS}
HohmannCalls ==
  {[fn |-> "calculate_hohmann_transfer", r1 |-> r1, r2 |-> r2,
    central_mass |-> central_mass, result |-> None] :
     r1 \in HohmannRadii, r2 \in HohmannRadii, central_mass \in HohmannMasses}

\* Fuel percentages (centi-percent) for calculate_delta_v_budget.
BudgetFuels == {1, 50, 1000, 2500, 5000, 7777, FULL_FUEL}
BudgetCalls ==
  {[fn |-> "calculate_delta_v_budget", ship_type |-> ship_type,
    fuel_percentage |-> fuel_percentage, ship_mass |-> ship_mass, result |-> None] :
     ship_type \in CostShipTypes, fuel_percentage \in BudgetFuels,
     ship_mass \in CostShipMasses}

\* Fly-bys for calculate_gravity_assist: velocities in centi units/day, the
\* planet's mass in program units, the closest approach in deci units.
AssistApproaches == {<<1000, 2000>>, <<-3000, 500>>, <<0, 3162>>}
AssistPlanetVelocities == {<<0, 0>>, <<0, 1300>>, <<-2000, 2000>>}
AssistPlanetMasses == {1, 318}
AssistDistances == {20, 200}
AssistCalls ==
  {[fn |-> "calculate_gravity_assist", approach_velocity |-> approach_velocity,
    planet_velocity |-> planet_velocity, planet_mass |-> planet_mass,
    closest_approach |-> closest_approach, result |-> None] :
     approach_velocity \in AssistApproaches, planet_velocity \in AssistPlanetVelocities,
     planet_mass \in AssistPlanetMasses, closest_approach \in AssistDistances}

\* A position from calculate_orbital_position and the circular velocity of
\* calculate_orbital_velocity, a quarter turn ahead of the radius.
CircularState(semi_major_axis, angle) ==
  LET speed == calculate_orbital_velocity(SUN_MASS, semi_major_axis)
  IN [position |-> calculate_orbital_position(semi_major_axis, angle),
      velocity |-> <<MulDiv(speed, Cos(angle + HALF_PI), Fx),
                     MulDiv(speed, Sin(angle + HALF_PI), Fx)>>]

CircularRadii == {387, 1000, 1524}
CircularAngles == {0, 7854, HALF_PI, 40000}
CircularStates ==
  {CircularState(semi_major_axis, angle) :
     semi_major_axis \in CircularRadii, angle \in CircularAngles}

\* Other states about the Sun: an ellipse, a hyperbola, a radial fall, and
\* two with v**2 / 2 = G * M / r exactly (specific energy 0).
OtherStates ==
  {[position |-> <<1000, 0>>, velocity |-> <<0, 2000>>],
   [position |-> <<1000, 0>>, velocity |-> <<0, 6000>>],
   [position |-> <<1000, 0>>, velocity |-> <<3000, 0>>],
   [position |-> <<5000, 0>>, velocity |-> <<1200, 1600>>],
   [position |-> <<0, -5000>>, velocity |-> <<2000, 0>>]}

ElementsCalls ==
  {[fn |-> "calculate_orbital_elements", position |-> state.position,
    velocity |-> state.velocity, result |-> None] :
     state \in CircularStates \cup OtherStates}

\* The same states handed to the function of physics/orbital.py, as the
\* 2-tuples the game keeps and as 3-tuples with z = 0.
StateVectorCalls ==
  {[fn |-> "calculate_orbital_elements_from_state_vectors",
    position |-> IF dims = 2 THEN state.position ELSE state.position \o <<0>>,
    velocity |-> IF dims = 2 THEN state.velocity ELSE state.velocity \o <<0>>,
    central_mass |-> SUN_MASS, result |-> None] :
     state \in CircularStates \cup OtherStates, dims \in {2, 3}}

\* Orbits (semi_major_axis in milli-AU, period in centi-days) and times
\* (centi-days) for calculate_optimal_transfer_window.
WindowOrbits ==
  {[semi_major_axis |-> 387, period |-> 8800],
   [semi_major_axis |-> 723, period |-> 22500],
   [semi_major_axis |-> 1000, period |-> 36525],
   [semi_major_axis |-> 1524, period |-> 68700],
   [semi_major_axis |-> 5203, period |-> 433300]}
WindowTimes == {0, 1000, 10000, 40000, 100000}
WindowCalls ==
  {[fn |-> "calculate_optimal_transfer_window", origin_orbit |-> origin_orbit,
    destination_orbit |-> destination_orbit, current_time |-> current_time,
    result |-> None] :
     origin_orbit \in WindowOrbits, destination_orbit \in WindowOrbits,
     current_time \in WindowTimes}

\* Planet dictionaries for evaluate_gravity_assist_opportunities: Mars,
\* Jupiter and Saturn of ORBITAL_PARAMETERS and a second planet on Jupiter's
\* orbit, which ties with Jupiter.
AssistPlanet(name, mass, semi_major_axis, period, radius) ==
  [name |-> name, mass |-> mass, semi_major_axis |-> semi_major_axis, period |-> period,
   radius |-> radius]
OpportunityPlanets ==
  LET MARS == AssistPlanet("MARS", 1070, 1524, 68700, 5)
      JUPITER == AssistPlanet("JUPITER", 3178000, 5203, 433300, 15)
      TWIN == AssistPlanet("TWIN", 3178000, 5203, 433300, 15)
      SATURN == AssistPlanet("SATURN", 952000, 9580, 1075900, 13)
  IN {<<MARS, JUPITER, SATURN>>, <<SATURN, JUPITER, MARS>>,
      <<JUPITER, TWIN, SATURN>>, <<TWIN, SATURN, JUPITER>>}
OpportunityCalls ==
  {[fn |-> "evaluate_gravity_assist_opportunities",
    spacecraft_position |-> spacecraft_position,
    spacecraft_velocity |-> spacecraft_velocity,
    target_position |-> target_position, planets |-> planets,
    current_time |-> current_time, result |-> None] :
     spacecraft_position \in {<<707, 707>>, <<0, -3000>>},
     spacecraft_velocity \in {<<-2235, 2235>>, <<1500, 0>>, <<0, 0>>},
     target_position \in {<<52030, 0>>, <<-15240, 0>>, <<0, 95800>>},
     planets \in OpportunityPlanets,
     current_time \in {0, 100000, 250000}}

InitPhysics ==
  /\ time = 0
  /\ time_scale = 1
  /\ celestial_bodies = InitBodies
  /\ ships = InitShips
  /\ transfers = <<>>
  /\ selected_object = None
  /\ show_transfer_planning = FALSE
  /\ transfer_origin = None
  /\ transfer_destination = None
  /\ crashed = FALSE
  /\ frames = 0
  /\ inputs = 0
  /\ console = None
  /\ costs = None
  /\ call \in HohmannCalls \cup BudgetCalls \cup AssistCalls \cup ElementsCalls
                \cup StateVectorCalls \cup WindowCalls \cup OpportunityCalls

\* The call left by an exception.
Raised(result) == "raised" \in DOMAIN result

\* The call returns, or an exception leaves it; nothing of the game changes.
Called(fn, result) ==
  /\ call.fn = fn
  /\ call.result = None
  /\ call' = [call EXCEPT !.result = result]
  /\ UNCHANGED <<time, time_scale, celestial_bodies, ships, transfers, selected_object,
                 show_transfer_planning, transfer_origin, transfer_destination, crashed,
                 frames, inputs, console, costs>>

HohmannCall ==
  /\ call.fn = "calculate_hohmann_transfer"
  /\ Called("calculate_hohmann_transfer",
            calculate_hohmann_transfer(call.r1, call.r2, call.central_mass))

BudgetCall ==
  /\ call.fn = "calculate_delta_v_budget"
  /\ Called("calculate_delta_v_budget",
            Value(calculate_delta_v_budget(call.ship_type, call.fuel_percentage,
                                           call.ship_mass)))

AssistCall ==
  /\ call.fn = "calculate_gravity_assist"
  /\ Called("calculate_gravity_assist",
            IF gravity_assist_defined(call.approach_velocity, call.planet_velocity,
                                      call.planet_mass, call.closest_approach)
            THEN Value(calculate_gravity_assist(call.approach_velocity,
                                                call.planet_velocity, call.planet_mass,
                                                call.closest_approach))
            ELSE [raised |-> "ZeroDivisionError"])

ElementsCall ==
  /\ call.fn = "calculate_orbital_elements"
  /\ Called("calculate_orbital_elements",
            calculate_orbital_elements(call.position, call.velocity))

StateVectorCall ==
  /\ call.fn = "calculate_orbital_elements_from_state_vectors"
  /\ Called("calculate_orbital_elements_from_state_vectors",
            calculate_orbital_elements_from_state_vectors(call.position, call.velocity,
                                                          call.central_mass))

WindowCall ==
  /\ call.fn = "calculate_optimal_transfer_window"
  /\ Called("calculate_optimal_transfer_window",
            IF transfer_window_defined(call.origin_orbit, call.destination_orbit)
            THEN Value(calculate_optimal_transfer_window(call.origin_orbit,
                                                         call.destination_orbit,
                                                         call.current_time))
            ELSE [raised |-> "ZeroDivisionError"])

OpportunitiesCall ==
  /\ call.fn = "evaluate_gravity_assist_opportunities"
  /\ Called("evaluate_gravity_assist_opportunities",
            IF opportunities_defined(call.spacecraft_position, call.spacecraft_velocity,
                                     call.target_position, call.planets, call.current_time)
            THEN Value(evaluate_gravity_assist_opportunities(
                         call.spacecraft_position, call.spacecraft_velocity,
                         call.target_position, call.planets, call.current_time))
            ELSE [raised |-> "ZeroDivisionError"])

NextPhysics ==
  \/ HohmannCall
  \/ BudgetCall
  \/ AssistCall
  \/ ElementsCall
  \/ StateVectorCall
  \/ WindowCall
  \/ OpportunitiesCall

SpecPhysics == InitPhysics /\ [][NextPhysics]_vars

\* ------------------------------------------------------------------------
\* Steps of a behaviour, told apart by the counters of main()'s loop.

\* The step is a call of update().
UpdateStep == frames' = frames + 1
\* The step is a call of update() that returned (no exception left it).
UpdateReturned == UpdateStep /\ ~crashed'
\* The step is a call of execute_transfer that returned.
ExecuteReturned == ClickExecute /\ ~crashed'
\* update()'s game_dt, read back from the clock.
StepGameDt == (time' - time) \div DAY_PER_SECOND

\* ------------------------------------------------------------------------
\* C1: every ship's fuel percentage stays within [0, 100] through update
\* ticks, executed transfers and cancelled plans.
C1_FuelInRange ==
  \A i \in 1..Len(ships) : ships[i].fuel >= 0 /\ ships[i].fuel <= FULL_FUEL

\* A ship has paid for a transfer and has flown it to the end: its record is
\* in the list, its mission is over and its fuel is below what it started with.
C1_Witness ==
  \E i \in 1..Len(ships) :
    /\ \E k \in 1..Len(transfers) : transfers[k].ship = ships[i].name
    /\ ships[i].mission = None
    /\ frames > 0
    /\ ships[i].fuel < InitShips[i].fuel

\* ------------------------------------------------------------------------
\* C2: a transfer whose first burn costs more fuel than the ship holds is
\* rejected whole: fuel, velocity, trajectory, mission and the transfers list
\* are as before the command.
C2_RejectedTransferChangesNothing ==
  [][(ExecuteReturned /\ TransferFuel > ships[transfer_origin.index].fuel) =>
       LET i == transfer_origin.index
       IN /\ ships'[i].fuel = ships[i].fuel
          /\ ships'[i].velocity = ships[i].velocity
          /\ ships'[i].trajectory = ships[i].trajectory
          /\ ships'[i].mission = ships[i].mission
          /\ transfers' = transfers]_vars

\* A transfer has just been refused for want of fuel: the refusal is the
\* last line printed and the plan it was clicked on is still open.
C2_Witness ==
  /\ console # None /\ console.line = "Not enough fuel!"
  /\ show_transfer_planning
  /\ transfer_origin # None /\ transfer_destination # None
  /\ console.ship = ships[transfer_origin.index].name
  /\ ~TransferRaises
  /\ TransferFuel > ships[transfer_origin.index].fuel
  /\ transfers = <<>>

\* ------------------------------------------------------------------------
\* C3: execute_transfer is atomic.  It goes ahead exactly when the fuel of the
\* first burn is at most the ship's fuel, and then, in the one command, the
\* fuel is paid, delta_v1 is added to the velocity, a trajectory is stored,
\* one record is appended and a mission is attached whose arrival time is the
\* record's end time (now + transfer time), whose delta_v2 is the Hohmann
\* second burn and whose target radius is the destination's distance from the
\* origin; otherwise nothing changes.  No state shows part of these effects.

\* The length of the velocity change of ship i in the step.
VelocityChange(i) ==
  Norm(<<ships'[i].velocity[1] - ships[i].velocity[1],
         ships'[i].velocity[2] - ships[i].velocity[2]>>)

\* Every effect of a transfer that goes ahead, on ship i.
AllEffects(i) ==
  /\ ships'[i].fuel = ships[i].fuel - TransferFuel
  /\ Abs(VelocityChange(i) - TransferData.delta_v1) <= 1
  /\ ships'[i].trajectory # None
  /\ Len(transfers') = Len(transfers) + 1
  /\ SubSeq(transfers', 1, Len(transfers)) = transfers
  /\ ships'[i].mission # None
  /\ ships'[i].mission.arrival_time = transfers'[Len(transfers')].end_time
  /\ ships'[i].mission.arrival_time = time + TransferData.transfer_time
  /\ ships'[i].mission.delta_v2 = TransferData.delta_v2
  /\ ships'[i].mission.target_orbit_radius =
       Norm(celestial_bodies[transfer_destination.index].position)

\* A mission, its trajectory and its record exist together.
MissionPaired ==
  \A i \in 1..Len(ships) :
    /\ (ships[i].mission # None) = (ships[i].trajectory # None)
    /\ ships[i].mission # None =>
         \E k \in 1..Len(transfers) :
           /\ transfers[k].ship = ships[i].name
           /\ transfers[k].end_time = ships[i].mission.arrival_time
           /\ transfers[k].delta_v2 = ships[i].mission.delta_v2

C3_ExecuteTransferAtomic ==
  /\ []MissionPaired
  /\ [][ExecuteReturned =>
          LET i == transfer_origin.index
          IN IF TransferFuel <= ships[i].fuel
             THEN AllEffects(i)
             ELSE UNCHANGED <<ships, transfers>>]_vars

\* A transfer with a first burn to pay has gone ahead and no tick has passed:
\* the ship holds less fuel than it was built with, flies faster than its
\* circular orbit, and carries the mission of the last record.
C3_Witness ==
  \E i \in 1..Len(ships) :
    /\ Len(transfers) > 0
    /\ transfers[Len(transfers)].ship = ships[i].name
    /\ transfers[Len(transfers)].delta_v1 > 0
    /\ frames = 0
    /\ ships[i].fuel < InitShips[i].fuel
    /\ ships[i].velocity # InitShips[i].velocity
    /\ ships[i].mission # None
    /\ ships[i].mission.arrival_time = transfers[Len(transfers)].end_time
    /\ ~show_transfer_planning

\* ------------------------------------------------------------------------
\* C4: a tick that attempts the arrival burn of a pending mission (arrival
\* time passed, ship inside the radius window) ends with the ship's mission
\* and trajectory cleared, whether the burn was afforded or not; a burn that
\* was not afforded costs nothing, and update() never gives a ship a mission
\* again, so it is not retried in a later tick.
C4_ArrivalAttemptClearsMission ==
  [][UpdateReturned =>
       \A i \in 1..Len(ships) :
         /\ ArrivalAttempted(ships[i], time') =>
              /\ ships'[i].mission = None
              /\ ships'[i].trajectory = None
              /\ ships'[i].fuel = IF ArrivalFuel(ships[i]) <= ships[i].fuel
                                  THEN ships[i].fuel - ArrivalFuel(ships[i])
                                  ELSE ships[i].fuel
         /\ ships[i].mission = None =>
              /\ ships'[i].mission = None
              /\ ships'[i].fuel >= ships[i].fuel - StationKeepingFuel]_vars

\* An arrival burn was attempted and not afforded, and a later tick has run:
\* the mission and the trajectory are gone and the fuel left is what the
\* first burn left, less than the burn refused.
C4_Witness ==
  \E i \in 1..Len(ships) :
    /\ console # None
    /\ console.line = "Not enough fuel for arrival burn!"
    /\ console.ship = ships[i].name
    /\ frames >= 2
    /\ ships[i].mission = None
    /\ ships[i].trajectory = None
    /\ \E k \in 1..Len(transfers) :
         /\ transfers[k].ship = ships[i].name
         /\ calculate_fuel_consumption(transfers[k].delta_v2, ships[i].type, ships[i].mass)
              > ships[i].fuel

\* ------------------------------------------------------------------------
\* C5: a pending mission is not left pending: a tick that finds the arrival
\* time passed and the ship outside the arrival radius window abandons
\* (clears) the mission.
C5_MissedArrivalAbandonsMission ==
  [][UpdateReturned =>
       \A i \in 1..Len(ships) :
         (ArrivalDue(ships[i], time') /\ ~InWindow(ships[i])) =>
           ships'[i].mission = None]_vars

\* ------------------------------------------------------------------------
\* C6: in a tick that a ship starts with a pending mission, station-keeping
\* does not run for it: its velocity changes by the arrival burn and by the
\* gravity step only, and its fuel by the arrival burn only.
C6_NoStationKeepingDuringMission ==
  [][UpdateReturned =>
       \A i \in 1..Len(ships) :
         ships[i].mission # None =>
           /\ ships'[i] = Integrate(ArrivalBurn(ships[i], time'), celestial_bodies', StepGameDt)
           /\ ships'[i].fuel = IF ArrivalAttempted(ships[i], time')
                                  /\ ArrivalFuel(ships[i]) <= ships[i].fuel
                               THEN ships[i].fuel - ArrivalFuel(ships[i])
                               ELSE ships[i].fuel]_vars

\* A ship has flown a tick of positive length with its mission pending, on
\* an orbit that station-keeping would have corrected, and holds exactly the
\* fuel its first burn left.
C6_Witness ==
  \E i \in 1..Len(ships) :
    /\ ships[i].mission # None
    /\ ships[i].mission.start_time < time
    /\ frames >= 1
    /\ ships[i].destination = None /\ ships[i].fuel > 0
    /\ StationKeepingNeeded(ships[i])
    /\ Len(transfers) = 1
    /\ transfers[1].ship = ships[i].name
    /\ ships[i].fuel = InitShips[i].fuel
                       - calculate_fuel_consumption(transfers[1].delta_v1, ships[i].type,
                                                    ships[i].mass)

\* ------------------------------------------------------------------------
\* C7: for a ship with no fuel, every commanded transfer, one to a body at
\* the ship's own distance from the origin included, leaves the velocity as
\* it was, attaches no mission, appends no record and is reported as not
\* affordable.
C7_EmptyTankTransferRefused ==
  [][(ExecuteReturned /\ ships[transfer_origin.index].fuel = 0) =>
       LET i == transfer_origin.index
       IN /\ ships'[i].velocity = ships[i].velocity
          /\ ships'[i].mission = ships[i].mission
          /\ transfers' = transfers
          /\ console' = [line |-> "Not enough fuel!", ship |-> ships[i].name]]_vars

\* ------------------------------------------------------------------------
\* C8: with the time scale at 0, a tick leaves the time, every body's angle,
\* position and velocity, and every ship's position, velocity, fuel and
\* mission as they were.
C8_PauseFreezes ==
  [][(UpdateReturned /\ time_scale = 0) =>
       /\ time' = time
       /\ \A j \in 1..Len(celestial_bodies) :
            /\ celestial_bodies'[j].angle = celestial_bodies[j].angle
            /\ celestial_bodies'[j].position = celestial_bodies[j].position
            /\ celestial_bodies'[j].velocity = celestial_bodies[j].velocity
       /\ \A i \in 1..Len(ships) :
            /\ ships'[i].position = ships[i].position
            /\ ships'[i].velocity = ships[i].velocity
            /\ ships'[i].fuel = ships[i].fuel
            /\ ships'[i].mission = ships[i].mission]_vars

\* ------------------------------------------------------------------------
\* What a returned call of calculate_transfer_costs shows.
Returned == costs # None /\ costs.result # None
HohmannFeasible == costs.result.hohmann.fuel_percentage <= FULL_FUEL
FeasibleCandidates ==
  {k \in 1..Len(costs.result.bi_elliptic_options) :
     costs.result.bi_elliptic_options[k].fuel_percentage <= FULL_FUEL}
FartherOrbit == Max(costs.origin_orbit, costs.destination_orbit)

\* C9: calculate_transfer_costs recommends no infeasible option when a
\* feasible one exists; it answers "impossible" exactly when the Hohmann fuel
\* and the fuel of all four bi-elliptic candidates (2, 3, 4 and 5 times the
\* farther orbit) exceed 100 percent; and "bi_elliptic" comes with an
\* optimal_bi_elliptic that is one of the candidates, of at most 100 percent.
C9_RecommendationFeasible ==
  Returned =>
    LET result == costs.result
        options == result.bi_elliptic_options
    IN /\ Len(options) = 4
       /\ \A k \in 1..4 : options[k].intermediate_radius = (k + 1) * FartherOrbit
       /\ result.recommended_transfer \in {"hohmann", "bi_elliptic", "impossible"}
       /\ (result.recommended_transfer = "impossible")
            = (~HohmannFeasible /\ FeasibleCandidates = {})
       /\ result.recommended_transfer = "hohmann" => HohmannFeasible
       /\ result.recommended_transfer = "bi_elliptic" =>
            /\ result.optimal_bi_elliptic # None
            /\ result.optimal_bi_elliptic.fuel_percentage <= FULL_FUEL
            /\ \E k \in FeasibleCandidates : options[k] = result.optimal_bi_elliptic

\* A call has returned "bi_elliptic" for a transfer whose Hohmann fuel is
\* above 100 percent and some of whose candidates are not feasible either.
C9_Witness ==
  /\ Returned
  /\ ~HohmannFeasible
  /\ FeasibleCandidates # {}
  /\ FeasibleCandidates # 1..4
  /\ costs.result.recommended_transfer = "bi_elliptic"

\* C10: when the Hohmann transfer and at least one bi-elliptic candidate are
\* feasible, the answer is "hohmann" unless the cheapest feasible candidate
\* takes strictly less fuel than Hohmann (equal fuel answers "hohmann"), and
\* optimal_bi_elliptic is the feasible candidate of least fuel.
C10_HohmannWinsTies ==
  (Returned /\ HohmannFeasible /\ FeasibleCandidates # {}) =>
    LET result == costs.result
        options == result.bi_elliptic_options
        cheapest == CHOOSE k \in FeasibleCandidates :
                      \A l \in FeasibleCandidates :
                        options[k].fuel_percentage <= options[l].fuel_percentage
    IN /\ result.optimal_bi_elliptic # None
       /\ result.optimal_bi_elliptic.fuel_percentage = options[cheapest].fuel_percentage
       /\ \E k \in FeasibleCandidates : options[k] = result.optimal_bi_elliptic
       /\ result.recommended_transfer =
            IF options[cheapest].fuel_percentage < result.hohmann.fuel_percentage
            THEN "bi_elliptic"
            ELSE "hohmann"

\* A call has returned "bi_elliptic" with Hohmann feasible: the cheapest
\* feasible candidate takes strictly less fuel, and it is not the first one.
C10_Witness ==
  /\ Returned
  /\ HohmannFeasible
  /\ FeasibleCandidates # {}
  /\ costs.result.recommended_transfer = "bi_elliptic"
  /\ costs.result.optimal_bi_elliptic.fuel_percentage < costs.result.hohmann.fuel_percentage
  /\ costs.result.optimal_bi_elliptic # costs.result.bi_elliptic_options[1]

\* ------------------------------------------------------------------------
\* C11: no update tick raises, wherever a ship is: on the central star, or
\* closer than the minimum-distance floor to a body.  (The code raises
\* ZeroDivisionError for a ship with fuel and no mission at radius 0.)
C11_UpdateNeverRaises == [][UpdateStep => ~crashed']_vars

\* ------------------------------------------------------------------------
\* C12: after initialization and after every update tick exactly one body
\* has orbital period 0 and it is at the origin; every other body is at
\* calculate_orbital_position(semi_major_axis, angle), offset by the current
\* position of its parent when it has one.
C12_BodiesOnOrbits ==
  /\ Cardinality({j \in 1..Len(celestial_bodies) :
                    celestial_bodies[j].orbital_period = 0}) = 1
  /\ \A j \in 1..Len(celestial_bodies) :
       LET body == celestial_bodies[j]
           on_orbit == calculate_orbital_position(body.semi_major_axis, body.angle)
           pj == FindBody(celestial_bodies, body.parent)
       IN IF body.orbital_period = 0 THEN body.position = <<0, 0>>
          ELSE IF body.parent # NoParent
          THEN /\ pj # 0
               /\ body.position = <<celestial_bodies[pj].position[1] + on_orbit[1],
                                    celestial_bodies[pj].position[2] + on_orbit[2]>>
          ELSE body.position = on_orbit

\* Two ticks on, with Earth and Luna both away from where they started.
C12_Witness ==
  /\ frames = 2
  /\ celestial_bodies[2].position # InitBodies[2].position
  /\ celestial_bodies[4].angle # 0
  /\ celestial_bodies[4].position[1] - celestial_bodies[2].position[1]
       # InitBodies[4].position[1] - InitBodies[2].position[1]

\* ------------------------------------------------------------------------
\* C13: the transfers list is append-only.  Every step keeps the list it
\* finds as a prefix of the list it leaves (so the list of an earlier state
\* is a prefix of the list of every later one); a call of execute_transfer
\* that returns with the first burn afforded adds exactly one record, and
\* every other step leaves the list as it is.
C13_TransfersAppendOnly ==
  [][IF ExecuteReturned /\ TransferFuel <= ships[transfer_origin.index].fuel
     THEN /\ Len(transfers') = Len(transfers) + 1
          /\ SubSeq(transfers', 1, Len(transfers)) = transfers
     ELSE transfers' = transfers]_vars

\* Two records, the second one appended behind the first, and ticks gone by.
C13_Witness ==
  /\ Len(transfers) = 2
  /\ frames >= 1
  /\ transfers[1].end_time # transfers[2].end_time

\* ------------------------------------------------------------------------
\* C14: a ship without a mission that starts on a circular orbit about the
\* central star (both ships of initialize_solar_system do) never has its fuel
\* lowered or its velocity corrected by station-keeping.  No transfer has
\* been executed while the list of transfers is empty, so until then every
\* ship holds the fuel it started with.  (The code's integration and the
\* planets' pull take the ships off their circles, and station-keeping then
\* charges for its corrections.)
C14_CircularShipKeepsFuel ==
  transfers = <<>> =>
    \A i \in 1..Len(ships) : ships[i].mission = None => ships[i].fuel = InitShips[i].fuel

\* ------------------------------------------------------------------------
\* Calls of SpecPhysics that have ended.
CallEnded(fn) == call # None /\ call.fn = fn /\ call.result # None

\* C15: for r1 # r2, calculate_hohmann_transfer(r1, r2, M) and
\* calculate_hohmann_transfer(r2, r1, M) give the same total_delta_v and the
\* same transfer_time.
C15_HohmannSymmetric ==
  (CallEnded("calculate_hohmann_transfer") /\ call.r1 # call.r2) =>
    LET back == calculate_hohmann_transfer(call.r2, call.r1, call.central_mass)
    IN /\ call.result.total_delta_v = back.total_delta_v
       /\ call.result.transfer_time = back.transfer_time

\* A transfer whose two burns differ, so that the way back swaps them.
C15_Witness ==
  /\ CallEnded("calculate_hohmann_transfer")
  /\ call.r1 > call.r2
  /\ call.result.delta_v1 # call.result.delta_v2
  /\ call.result.delta_v1 > 0
  /\ call.result.transfer_time > 0

\* The most the round trip of C16 may be off: one percentage point, what the
\* centi unit/day grid of delta-v resolves through the rocket equation.
BudgetTolerance == 1 * PctScale

\* C16: calculate_fuel_consumption undoes calculate_delta_v_budget: for
\* every ship type (unknown ones included), mass and fuel percentage f in
\* (0, 100], the fuel that the budget of f costs is f, within tolerance.
C16_BudgetInvertsConsumption ==
  CallEnded("calculate_delta_v_budget") =>
    Abs(calculate_fuel_consumption(call.result.value, call.ship_type, call.ship_mass)
        - call.fuel_percentage) <= BudgetTolerance

\* A full tank of a ship of a type the table does not know.
C16_Witness ==
  /\ CallEnded("calculate_delta_v_budget")
  /\ call.ship_type \notin ShipTypes
  /\ call.fuel_percentage = FULL_FUEL
  /\ call.result.value > VelScale

\* C17: calculate_gravity_assist keeps the speed relative to the planet:
\* |post - planet_velocity| = |approach_velocity - planet_velocity|, within
\* a thousandth of that speed and two grid steps.
C17_AssistKeepsRelativeSpeed ==
  (CallEnded("calculate_gravity_assist") /\ ~Raised(call.result)) =>
    LET before == Norm(<<call.approach_velocity[1] - call.planet_velocity[1],
                         call.approach_velocity[2] - call.planet_velocity[2]>>)
        after == Norm(<<call.result.value[1] - call.planet_velocity[1],
                        call.result.value[2] - call.planet_velocity[2]>>)
    IN Abs(after - before) <= 2 + before \div 1000

\* A fly-by of a moving planet that turned the ship and changed its speed
\* about the Sun.
C17_Witness ==
  /\ CallEnded("calculate_gravity_assist")
  /\ ~Raised(call.result)
  /\ call.planet_velocity # <<0, 0>>
  /\ Abs(Norm(call.result.value) - Norm(call.approach_velocity)) > 5 * VelScale

\* C18: the orbital-element extraction, handed a 2D position from
\* calculate_orbital_position and the matching circular velocity, returns a
\* result with eccentricity about 0 (at most 0.01 here).  (The function of
\* physics/orbital.py reads a third component and raises IndexError.)
C18_CircularRoundTrip ==
  \A fn \in {"calculate_orbital_elements", "calculate_orbital_elements_from_state_vectors"} :
    (/\ CallEnded(fn)
     /\ Len(call.position) = 2
     /\ [position |-> call.position, velocity |-> call.velocity] \in CircularStates)
    => /\ ~Raised(call.result)
       /\ call.result.eccentricity <= Fx \div 100

\* C19: the orbital-element query returns for every state, with a period
\* exactly when the eccentricity is below 1 and with none when the specific
\* energy is 0 or more.  (The code divides by 2 * energy and raises
\* ZeroDivisionError when the energy is exactly 0.)
C19_PeriodOnlyWhenBound ==
  CallEnded("calculate_orbital_elements") =>
    /\ ~Raised(call.result)
    /\ (call.result.period # None) <=> (call.result.eccentricity < Fx)
    /\ SpecificEnergy(call.position, call.velocity) >= 0 => call.result.period = None

\* C20: for two orbits of different periods calculate_optimal_transfer_window
\* returns a delay d with 0 <= d < the synodic period of the two orbits.
\* (The code divides by 1/destination_period - 1/origin_period, which is
\* negative for every outbound transfer.)
C20_WindowDelayInRange ==
  (/\ CallEnded("calculate_optimal_transfer_window")
   /\ call.origin_orbit.period # call.destination_orbit.period)
  => /\ ~Raised(call.result)
     /\ call.result.value >= 0
     /\ call.result.value < MulDiv(call.origin_orbit.period, call.destination_orbit.period,
                                   Abs(call.origin_orbit.period
                                       - call.destination_orbit.period))

\* C21: calculate_hohmann_transfer(1.0, 1.524, 1000), Earth to Mars about
\* the scaled solar mass, gives a transfer time of about 259 days (here:
\* within 5 percent of 259.00 days).
C21_EarthMarsTransferTime ==
  (/\ CallEnded("calculate_hohmann_transfer")
   /\ call.r1 = 1000 /\ call.r2 = 1524 /\ call.central_mass = SUN_MASS) =>
    Abs(call.result.transfer_time - 259 * TimeScale) * 20 <= 259 * TimeScale

\* C22: within one tick every celestial body, a moon about the place its
\* parent has just been given, is updated before any ship's gravity step, so
\* every ship of the tick is moved under the pull of the bodies where they
\* stand after the tick.
C22_BodiesBeforeShips ==
  [][UpdateReturned =>
       /\ \A j \in 1..Len(celestial_bodies) :
            (celestial_bodies[j].parent # NoParent) =>
              LET parent == celestial_bodies'[FindBody(celestial_bodies, celestial_bodies[j].parent)]
                  rel_position == calculate_orbital_position(celestial_bodies'[j].semi_major_axis,
                                                             celestial_bodies'[j].angle)
              IN celestial_bodies'[j].position = <<parent.position[1] + rel_position[1],
                                                   parent.position[2] + rel_position[2]>>
       /\ \A i \in 1..Len(ships) :
            ships'[i] = Integrate(Maneuvers(ships[i], time'), celestial_bodies', StepGameDt)]_vars

\* After the first tick a ship stands where the pull of the moved bodies has
\* put it, which is not where the pull of the bodies' old places would have.
C22_Witness ==
  /\ frames = 1 /\ ~crashed /\ transfers = <<>>
  /\ celestial_bodies[2].position # InitBodies[2].position
  /\ \E i \in 1..Len(ships) :
       /\ ships[i] = Integrate(Maneuvers(InitShips[i], time), celestial_bodies, time \div DAY_PER_SECOND)
       /\ ships[i] # Integrate(Maneuvers(InitShips[i], time), InitBodies, time \div DAY_PER_SECOND)

\* The velocity of a circular orbit at the ship's distance from the origin,
\* a quarter turn ahead of its radius vector.
CircularVelocity(ship) ==
  LET vel_angle == Atan2(ship.position[2], ship.position[1]) + HALF_PI
      orbit_vel == calculate_orbital_velocity(SUN_MASS, ToAU(Norm(ship.position)))
  IN <<MulDiv(orbit_vel, Cos(vel_angle), Fx), MulDiv(orbit_vel, Sin(vel_angle), Fx)>>

\* C23: when an arrival burn is attempted and the fuel of the mission's
\* delta_v2 is at most the ship's fuel, the fuel goes down by exactly that
\* amount and the velocity handed to the tick's gravity step is the circular
\* velocity at the ship's radius, a quarter turn ahead of the radius vector;
\* otherwise the fuel stays and the gravity step starts from the velocity
\* the ship had.
C23_ArrivalBurnEffect ==
  [][UpdateReturned =>
       \A i \in 1..Len(ships) :
         ArrivalAttempted(ships[i], time') =>
           LET ship == ships[i]
               fuel_required == calculate_fuel_consumption(ship.mission.delta_v2,
                                                           ship.type, ship.mass)
               snapped == [ship EXCEPT !.velocity = CircularVelocity(ship)]
           IN IF fuel_required <= ship.fuel
              THEN /\ ships'[i].fuel = ship.fuel - fuel_required
                   /\ ships'[i].velocity =
                        Integrate(snapped, celestial_bodies', StepGameDt).velocity
                   /\ ships'[i].position =
                        Integrate(snapped, celestial_bodies', StepGameDt).position
              ELSE /\ ships'[i].fuel = ship.fuel
                   /\ ships'[i].velocity =
                        Integrate(ship, celestial_bodies', StepGameDt).velocity]_vars

\* An arrival burn that costs fuel has been afforded: the ship that began
\* with 2 percent has paid both burns of its transfer and flies on without a
\* mission.
C23_Witness ==
  /\ console # None /\ console.line = "Transfer completed"
  /\ console.ship = ships[1].name
  /\ ships[1].mission = None
  /\ Len(transfers) = 1 /\ transfers[1].ship = ships[1].name
  /\ calculate_fuel_consumption(transfers[1].delta_v2, ships[1].type, ships[1].mass) > 0
  /\ ships[1].fuel = 2 * PctScale
       - calculate_fuel_consumption(transfers[1].delta_v1, ships[1].type, ships[1].mass)
       - calculate_fuel_consumption(transfers[1].delta_v2, ships[1].type, ships[1].mass)

\* C24: update() attempts an arrival burn, and clears a pending mission,
\* only in a tick whose simulation time has reached the mission's
\* arrival_time and whose ship is within 10 percent of the target radius;
\* nothing else clears a mission, and in every other tick a ship with a
\* pending mission keeps its fuel and is moved by gravity alone.
C24_ArrivalOnlyWhenDue ==
  [][\A i \in 1..Len(ships) :
       LET ship == ships[i]
           due == /\ time' >= ship.mission.arrival_time
                  /\ Abs(Norm(ship.position) - ship.mission.target_orbit_radius) * 10
                       < ship.mission.target_orbit_radius
       IN ship.mission # None =>
            /\ ships'[i].mission = None => (UpdateStep /\ due)
            /\ (UpdateReturned /\ ~due) =>
                 /\ ships'[i].mission = ship.mission
                 /\ ships'[i].fuel = ship.fuel
                 /\ ships'[i] = Integrate(ship, celestial_bodies', StepGameDt)]_vars

\* A mission begun at time 0 has waited through a first tick that ended
\* before its arrival time and was ended by the burn of the second tick, of
\* two centi-seconds at the present time scale, at or after that time.
C24_Witness ==
  /\ frames = 2 /\ ~crashed
  /\ Len(transfers) = 1
  /\ transfers[1].start_time = 0
  /\ time_scale > 0
  /\ time - 2 * time_scale > 0
  /\ time - 2 * time_scale < transfers[1].end_time
  /\ time >= transfers[1].end_time
  /\ console # None /\ console.line = "Transfer completed"
  /\ \E i \in 1..Len(ships) :
       /\ transfers[1].ship = ships[i].name
       /\ ships[i].mission = None
       /\ ships[i].fuel < InitShips[i].fuel

\* C25: the central star, at the origin, chosen as the destination of a
\* transfer is special-cased: no execute_transfer call hands orbit radius 0
\* to the Hohmann computation, so none ends in a division by zero.
C25_CentralBodySpecialCased ==
  [][ClickExecute =>
       /\ hohmann_defined(ToAU(TransferRadii.ship_radius), ToAU(TransferRadii.dest_radius))
       /\ ~crashed']_vars

\* C26: what a tick makes of a ship depends on that ship, the bodies and the
\* time only, never on another ship: every ship after a tick that returns is
\* the one-ship step applied to the ship it was, the bodies are moved
\* whatever the ships are, and the loop run over any permutation of the
\* ships list gives each ship the same state.
C26_ShipsIndependent ==
  [][UpdateReturned =>
       /\ celestial_bodies' = UpdateBodies(celestial_bodies, 1, StepGameDt)
       /\ \A i \in 1..Len(ships) :
            ships'[i] = UpdateShip(ships[i], time', celestial_bodies', StepGameDt)
       /\ \A p \in Permutations(1..Len(ships)) :
            LET permuted == [k \in 1..Len(ships) |-> ships[p[k]]]
                result == UpdateShips(permuted, 1, time', celestial_bodies', StepGameDt)
            IN /\ ~result.raised
               /\ \A k \in 1..Len(ships) : result.ships[k] = ships'[p[k]]]_vars

\* A tick has moved two ships: both have left the place and the velocity
\* they were built with.
C26_Witness ==
  /\ frames >= 1 /\ ~crashed
  /\ Len(ships) >= 2
  /\ \A i \in 1..Len(ships) :
       /\ ships[i].position # InitShips[i].position
       /\ ships[i].velocity # InitShips[i].velocity

\* The length of the correction that would put the ship on the circular
\* velocity of its radius.
CorrectionMagnitude(ship) == Norm(Correction(ship))

\* The conditions under which station-keeping acts on the ship: no mission,
\* no destination, no trajectory, fuel left, eccentricity above 0.01 and a
\* correction longer than 0.01.
StationKeepingActs(ship) ==
  /\ ship.mission = None /\ ship.destination = None /\ ship.trajectory = None
  /\ ship.fuel > 0
  /\ calculate_orbital_elements(ship.position, ship.velocity).eccentricity > Fx \div 100
  /\ CorrectionMagnitude(ship) > VelScale \div 100

\* The ship after a correction by the fraction min(0.1, magnitude / 10) that
\* costs 0.01 percent of fuel, not below 0.
Corrected(ship) ==
  LET correction == Correction(ship)
      tenth_of_magnitude == (CorrectionMagnitude(ship) * Fx) \div (10 * VelScale)
      fraction == IF tenth_of_magnitude < Fx \div 10 THEN tenth_of_magnitude ELSE Fx \div 10
  IN [ship EXCEPT
        !.velocity = <<ship.velocity[1] + MulDiv(correction[1], fraction, Fx),
                       ship.velocity[2] + MulDiv(correction[2], fraction, Fx)>>,
        !.fuel = IF ship.fuel > PctScale \div 100 THEN ship.fuel - PctScale \div 100 ELSE 0]

\* C27: station-keeping changes a ship only when it has no mission, no
\* destination, no trajectory, fuel above 0, eccentricity above 0.01 and a
\* velocity correction longer than 0.01; it then moves the velocity by the
\* fraction min(0.1, magnitude / 10) of the correction and takes exactly 0.01
\* percent of fuel, not below 0.  In every other case the step leaves fuel
\* and velocity alone: the ship enters the gravity step as the arrival
\* branch, if any, left it.
C27_StationKeepingEffect ==
  [][UpdateReturned =>
       \A i \in 1..Len(ships) :
         LET ship == ships[i]
         IN IF StationKeepingActs(ship)
            THEN /\ ships'[i] = Integrate(Corrected(ship), celestial_bodies', StepGameDt)
                 /\ ships'[i].fuel = Max(0, ship.fuel - StationKeepingFuel)
            ELSE /\ ships'[i] = Integrate(ArrivalBurn(ship, time'), celestial_bodies',
                                          StepGameDt)
                 /\ ship.mission = None => ships'[i].fuel = ship.fuel]_vars

\* After two ticks the ship with the empty tank is on an orbit that calls
\* for a correction and has received none, and the other ship, which has
\* flown no transfer, has paid 0.01 percent for one.
C27_Witness ==
  /\ frames = 2 /\ ~crashed /\ transfers = <<>>
  /\ ships[1].fuel = 0
  /\ calculate_orbital_elements(ships[1].position, ships[1].velocity).eccentricity
       > Fx \div 100
  /\ CorrectionMagnitude(ships[1]) > VelScale \div 100
  /\ ships[2].fuel = InitShips[2].fuel - StationKeepingFuel

\* The place in the planets list of the call of the planet named in a result.
PlanetIndex(planet_name) ==
  CHOOSE j \in 1..Len(call.planets) : call.planets[j].name = planet_name

\* The angle between the directions from the spacecraft to the planet and to
\* the target, brought into [0, PI].
DirectionToTarget(planet) ==
  Opportunity(call.spacecraft_position, call.spacecraft_velocity, call.target_position,
              planet, call.current_time).angle_to_target

\* C28: evaluate_gravity_assist_opportunities returns only planets of mass
\* at least 10 whose direction from the ship is at most 135 degrees off the
\* target's, each scored max_delta_v * (1 - angle_to_target / pi), in
\* non-increasing order of score, candidates of equal score in the order of
\* the list handed in.
C28_OpportunitiesRanked ==
  (CallEnded("evaluate_gravity_assist_opportunities") /\ ~Raised(call.result)) =>
    LET found == call.result.value
    IN /\ \A k \in 1..Len(found) :
            /\ \E j \in 1..Len(call.planets) : call.planets[j].name = found[k].planet_name
            /\ call.planets[PlanetIndex(found[k].planet_name)].mass >= 10 * MassScale
            /\ found[k].angle_to_target
                 = DirectionToTarget(call.planets[PlanetIndex(found[k].planet_name)])
            /\ found[k].angle_to_target >= 0
            /\ found[k].angle_to_target * 4 <= PI * 3
            /\ found[k].score
                 = MulDiv(found[k].max_delta_v, PI - found[k].angle_to_target, PI)
       /\ \A k \in 1..(Len(found) - 1) :
            \/ found[k].score > found[k + 1].score
            \/ /\ found[k].score = found[k + 1].score
               /\ PlanetIndex(found[k].planet_name) < PlanetIndex(found[k + 1].planet_name)

\* A call handed three planets of enough mass has returned two of them, of
\* equal positive score, the third being too far off the target's direction.
C28_Witness ==
  /\ CallEnded("evaluate_gravity_assist_opportunities") /\ ~Raised(call.result)
  /\ \A j \in 1..Len(call.planets) : call.planets[j].mass >= 10 * MassScale
  /\ Len(call.planets) = 3
  /\ Len(call.result.value) = 2
  /\ call.result.value[1].score = call.result.value[2].score
  /\ call.result.value[1].score > 0
  /\ call.result.value[1].planet_name = "TWIN"

\* C29: a mission is attached only to a ship that has none.  execute_transfer
\* on a ship whose arrival burn is still outstanding leaves the ship and the
\* transfer records as they are, and a mission, once attached, stays the
\* same until the arrival-burn attempt of an update clears it.
C29_MissionNotReplaced ==
  [][\A i \in 1..Len(ships) :
       ships[i].mission # None =>
         /\ ClickExecute => (ships'[i] = ships[i] /\ transfers' = transfers)
         /\ \/ ships'[i].mission = ships[i].mission
            \/ UpdateStep /\ ships'[i].mission = None]_vars

\* C30: in every state every ship has a mission exactly when it has a
\* trajectory, so the test for a trajectory in the station-keeping gate
\* tells the same as the test for an active mission: a ship with fuel and no
\* destination passes the gate exactly when it has no mission.
C30_MissionIffTrajectory ==
  \A i \in 1..Len(ships) :
    /\ (ships[i].mission = None) <=> (ships[i].trajectory = None)
    /\ (ships[i].destination = None /\ ships[i].fuel > 0) =>
         (StationKeepingGate(ships[i]) <=> ships[i].mission = None)

\* After a tick one ship flies a transfer, with mission and trajectory both
\* set and the station-keeping gate closed, while another has neither and
\* passes the gate.
C30_Witness ==
  /\ frames >= 1 /\ ~crashed
  /\ \E i \in 1..Len(ships) :
       /\ ships[i].mission # None /\ ships[i].trajectory # None
       /\ ships[i].fuel > 0 /\ ships[i].destination = None
       /\ ~StationKeepingGate(ships[i])
       /\ ships[i].mission.start_time < time
  /\ \E j \in 1..Len(ships) :
       /\ ships[j].mission = None /\ ships[j].trajectory = None
       /\ StationKeepingGate(ships[j])

====
